---- MODULE Spec2Model ----
(***************************************************************************)
(* Model of the schema compiler of ts-to-zod (src/core/generateZodSchema): *)
(* the type AST, the emitted expression tree, and the translation          *)
(* functions buildZodPrimitive / generateZodSchema /                       *)
(* generateZodSchemaVariableStatement as pure operators, driven by a state *)
(* machine whose actions each perform one top-level call (Spec), and one   *)
(* run of the CLI's generate, step by step (SpecCli).                      *)
(***************************************************************************)
EXTENDS Integers, Sequences, FiniteSets, TLC

VARIABLES
  op,            \* which entry point ran last
  typeNode,      \* the node handed to the entry point
  jsDocTags,     \* the annotation tag map handed to buildZodPrimitive
  flags,         \* [isOptional, isNullable, isPartial, isRequired]
  maybeConfig,   \* [typeNames, optional, nullable]
  genericMap,    \* state.genericMap handed to generateZodSchema
  pc,            \* "ready" before the call, "done" after it, "again" after a second one
  result,        \* what the call returned (or the error it raised)
  tagsAfter,     \* the tags object the call worked on, as the call leaves it
  fileConfig,    \* the configuration handed to the CLI's generate
  cli,           \* the arguments and flags of the command line
  locals,        \* the local constants of a run of the CLI's generate, once set
  written        \* the files a run of the CLI's generate has written

vars ==
  <<op, typeNode, jsDocTags, flags, maybeConfig, genericMap, pc, result, tagsAfter,
    fileConfig, cli, locals, written>>

-----------------------------------------------------------------------------
(* Type AST (TypeScript nodes).  Every node is a record with a kind; the   *)
(* other fields depend on the kind.                                        *)

NoTags == [k \in {} |-> ""]

Node(kind, name, kids) ==
  [kind |-> kind, name |-> name, kids |-> kids, hasArgs |-> FALSE, q |-> FALSE,
   tags |-> NoTags]

Kw(kind) == Node(kind, "", <<>>)

StringKw == Kw("StringKeyword")
NumberKw == Kw("NumberKeyword")
BooleanKw == Kw("BooleanKeyword")
AnyKw == Kw("AnyKeyword")
VoidKw == Kw("VoidKeyword")

\* LiteralTypeNode; name is the literal's kind, kids[1] is unused, text in q-less field
Lit(litKind, text) ==
  [kind |-> "LiteralType", name |-> text, kids |-> <<>>, hasArgs |-> FALSE,
   q |-> FALSE, tags |-> NoTags, lit |-> litKind]

StrLit(text) == Lit("StringLiteral", text)
NumLit(text) == Lit("NumericLiteral", text)
MinusLit(text) == Lit("MinusNumericLiteral", text)
TrueLit == Lit("TrueKeyword", "true")
FalseLit == Lit("FalseKeyword", "false")
NullLit == Lit("NullKeyword", "null")

\* TypeReferenceNode with an identifier name; hasArgs says typeArguments is present
Ref(name) == Node("TypeReference", name, <<>>)
RefArgs(name, args) == [Node("TypeReference", name, args) EXCEPT !.hasArgs = TRUE]
\* TypeReferenceNode whose typeName is the qualified name left.right
QRef(left, right) ==
  [kind |-> "TypeReference", name |-> right, kids |-> <<>>, hasArgs |-> FALSE,
   q |-> FALSE, tags |-> NoTags, left |-> left]

ArrayT(t) == Node("ArrayType", "", <<t>>)
Paren(t) == Node("ParenthesizedType", "", <<t>>)
Union(ts) == Node("UnionType", "", ts)
Intersection(ts) == Node("IntersectionType", "", ts)
Tuple(ts) == Node("TupleType", "", ts)
RestT(t) == Node("RestType", "", <<t>>)
\* NamedTupleMember; q is its dotDotDotToken
NamedMember(name, t, rest) == [Node("NamedTupleMember", name, <<t>>) EXCEPT !.q = rest]
IndexedAccess(obj, idx) == Node("IndexedAccessType", "", <<obj, idx>>)

\* PropertySignature name[?]: t, with the tags the annotation extractor yields
Prop(name, optional, t, tags) ==
  [Node("PropertySignature", name, <<t>>) EXCEPT !.q = optional, !.tags = tags]
IndexSig(t) == Node("IndexSignature", "", <<t>>)
TypeLit(members) == Node("TypeLiteral", "", members)

\* FunctionTypeNode: kids are the parameters followed by the return type
Param(name, optional, t) == [Node("Parameter", name, <<t>>) EXCEPT !.q = optional]
FunctionT(params, ret) == Node("FunctionType", "", params \o <<ret>>)

\* TemplateLiteralTypeNode: name is head.text, kids are the spans;
\* a span's name is its literal.text and its kid the embedded type
Span(t, text) == Node("TemplateLiteralTypeSpan", text, <<t>>)
Template(head, spans) == Node("TemplateLiteralType", head, spans)

\* Declarations.  tparams is typeParameters (hasTP: present), heritage the
\* extends entries, kids the members (interface), the aliased type (alias) or
\* the members (enum, each EnumMember with an optional initializer).
Interface(name, hasTP, tparams, heritage, members, tags) ==
  [kind |-> "InterfaceDeclaration", name |-> name, kids |-> members,
   hasArgs |-> FALSE, q |-> FALSE, tags |-> tags,
   hasTP |-> hasTP, tparams |-> tparams, heritage |-> heritage]
TypeAlias(name, hasTP, tparams, t, tags) ==
  [kind |-> "TypeAliasDeclaration", name |-> name, kids |-> <<t>>,
   hasArgs |-> FALSE, q |-> FALSE, tags |-> tags,
   hasTP |-> hasTP, tparams |-> tparams]
EnumMember(name, init) == Node("EnumMember", name, init)
Enum(name, members) == Node("EnumDeclaration", name, members)

isTypeReferenceNode(n) == n.kind = "TypeReference"
isQualifiedName(n) == "left" \in DOMAIN n
isLiteralTypeNode(n) == n.kind = "LiteralType"

-----------------------------------------------------------------------------
(* Emitted expressions (TypeScript factory nodes).                         *)

E(e, name, kids) == [e |-> e, name |-> name, kids |-> kids]

Identifier(name) == E("Identifier", name, <<>>)
PropertyAccess(on, name) == E("PropertyAccess", name, <<on>>)
ElementAccess(on, arg) == E("ElementAccess", "", <<on, arg>>)
\* kids[1] is the callee, the rest are the arguments
CallExpr(callee, args) == E("Call", "", <<callee>> \o args)
StringLiteral(text) == E("StringLiteral", text, <<>>)
NumericLiteral(text) == E("NumericLiteral", text, <<>>)
PrefixMinus(operand) == E("PrefixMinus", "", <<operand>>)
TrueExpr == E("True", "", <<>>)
ArrayLiteral(items) == E("ArrayLiteral", "", items)
PropertyAssignment(name, init) == E("PropertyAssignment", name, <<init>>)
ObjectLiteral(props) == E("ObjectLiteral", "", props)

\* What a call yields: an expression and the dependency collector after it,
\* or the error it threw.
Ok(expr, deps) == [ok |-> TRUE, expr |-> expr, deps |-> deps]
Throw(msg, deps) == [ok |-> FALSE, expr |-> E("Error", msg, <<>>), deps |-> deps]

ZImport == "z"

\* A chained modifier (ZodProperty)
ZodProperty(identifier, expressions) ==
  [identifier |-> identifier, expressions |-> expressions]
zodPropertyIsOptional == ZodProperty("optional", <<>>)

RECURSIVE withZodProperties(_, _)
withZodProperties(expression, properties) ==
  IF properties = <<>> THEN expression
  ELSE withZodProperties(
         CallExpr(PropertyAccess(expression, properties[1].identifier),
                  properties[1].expressions),
         Tail(properties))

buildZodSchema(z, callName, args, properties) ==
  withZodProperties(CallExpr(PropertyAccess(Identifier(z), callName), args),
                    properties)

maybeCall(arg, isOptional) ==
  withZodProperties(CallExpr(Identifier("maybe"), <<arg>>),
                    IF isOptional THEN <<zodPropertyIsOptional>> ELSE <<>>)

-----------------------------------------------------------------------------
(* Annotation tags: a map from the tag names that are set to their values. *)

HasTag(tags, k) == k \in DOMAIN tags

WithoutTag(tags, k) == [x \in DOMAIN tags \ {k} |-> tags[x]]

ElementTagOf ==
  [description |-> "elementDescription", minimum |-> "elementMinimum",
   maximum |-> "elementMaximum", minLength |-> "elementMinLength",
   maxLength |-> "elementMaxLength", format |-> "elementFormat",
   pattern |-> "elementPattern"]

\* The tag object the array rule builds for its element
elementTags(tags) ==
  [k \in {x \in DOMAIN ElementTagOf : HasTag(tags, ElementTagOf[x])} |->
     tags[ElementTagOf[k]]]

TagProperty(tags, k, identifier, asNumber) ==
  IF HasTag(tags, k)
  THEN <<ZodProperty(identifier,
           <<IF asNumber THEN NumericLiteral(tags[k]) ELSE StringLiteral(tags[k])>>)>>
  ELSE <<>>

\* jsDocTags.ts is not part of the sources at hand: the validators first, then
\* the contextual modifiers, then describe/default.
jsDocTagToZodProperties(tags, customJSDocFormatTypes, isOptional, isPartial, isRequired, isNullable) ==
  TagProperty(tags, "minimum", "min", TRUE)
  \o TagProperty(tags, "maximum", "max", TRUE)
  \o TagProperty(tags, "minLength", "min", TRUE)
  \o TagProperty(tags, "maxLength", "max", TRUE)
  \o (IF HasTag(tags, "format")
      THEN IF tags["format"] \in customJSDocFormatTypes
           THEN <<ZodProperty("regex", <<StringLiteral(tags["format"])>>)>>
           ELSE <<ZodProperty(tags["format"], <<>>)>>
      ELSE <<>>)
  \o TagProperty(tags, "pattern", "regex", FALSE)
  \o (IF isOptional THEN <<zodPropertyIsOptional>> ELSE <<>>)
  \o (IF isNullable THEN <<ZodProperty("nullable", <<>>)>> ELSE <<>>)
  \o (IF isPartial THEN <<ZodProperty("partial", <<>>)>> ELSE <<>>)
  \o (IF isRequired THEN <<ZodProperty("required", <<>>)>> ELSE <<>>)
  \o TagProperty(tags, "description", "describe", FALSE)
  \o TagProperty(tags, "default", "default", FALSE)

-----------------------------------------------------------------------------
(* Helpers of the repository that the compiler imports.                    *)


\* node.getText(sourceFile) of a literal type's literal
LiteralText(n) ==
  CASE n.lit = "StringLiteral" -> "\"" \o n.name \o "\""
    [] n.lit = "MinusNumericLiteral" -> "-" \o n.name
    [] OTHER -> n.name

\* utils/isNotNull: every union member but the literal null
isNotNull(n) == ~(isLiteralTypeNode(n) /\ n.lit = "NullKeyword")

\* utils/extractLiteralValue: the text a literal contributes to a template
extractLiteralValue(n) ==
  CASE n.lit = "StringLiteral" -> n.name
    [] n.lit = "NumericLiteral" -> n.name
    [] n.lit = "MinusNumericLiteral" -> "-" \o n.name
    [] OTHER -> ""

\* utils/generateCombinations: the cartesian product of the segment lists,
\* concatenated, the first list varying slowest
RECURSIVE generateCombinations(_)
generateCombinations(arrays) ==
  IF arrays = <<>> THEN <<"">>
  ELSE LET restCombos == generateCombinations(Tail(arrays))
           RECURSIVE each(_)
           each(firsts) ==
             IF firsts = <<>> THEN <<>>
             ELSE [i \in 1..Len(restCombos) |-> firsts[1] \o restCombos[i]]
                  \o each(Tail(firsts))
       IN each(arrays[1])

\* The default getDependencyName: camel(name + "Schema")
CamelFirst ==
  [Person |-> "person", Box |-> "box", Flag |-> "flag", Maybe |-> "maybe",
   Pair |-> "pair", AB |-> "aB", ABN |-> "aBN", EAB |-> "eAB", One |-> "one",
   Color |-> "color", Bare |-> "bare", Mixed |-> "mixed", T |-> "t", U |-> "u",
   Outer |-> "outer", Inner |-> "inner", Animal |-> "animal", Duo |-> "duo",
   Wrap |-> "wrap", Date |-> "date", Missing |-> "missing", Hero |-> "hero",
   Slim |-> "slim", Both |-> "both", Odd |-> "odd", Bad |-> "bad", Twice |-> "twice",
   Alias |-> "alias", Holder |-> "holder", Array |-> "array", Loose |-> "loose"]

getDependencyName(identifierName) ==
  (IF identifierName \in DOMAIN CamelFirst THEN CamelFirst[identifierName]
   ELSE identifierName) \o "Schema"

\* utils/findNode restricted to the statements of the file: the first
\* declaration that satisfies the predicate, or none.  The predicate is
\* given as the set of the nodes it accepts.
findNode(sourceFile, accepted) == SelectSeq(sourceFile, LAMBDA n : n \in accepted)

-----------------------------------------------------------------------------
(* Omit / Pick projection and the extension chain.                         *)

lower(name) == CASE name = "Omit" -> "omit" [] name = "Pick" -> "pick" [] OTHER -> name

SyntaxKindName(n) == IF isLiteralTypeNode(n) THEN "LiteralType" ELSE n.kind

buildOmitPickObject(omitOrPickIdentifierName, keys, zodCall, deps) ==
  LET call(parameters) ==
        Ok(CallExpr(PropertyAccess(zodCall, lower(omitOrPickIdentifierName)),
                    <<parameters>>), deps)
  IN
  IF isLiteralTypeNode(keys)
  THEN call(ObjectLiteral(<<PropertyAssignment(LiteralText(keys), TrueExpr)>>))
  ELSE IF keys.kind = "UnionType"
  THEN IF \E i \in 1..Len(keys.kids) : ~isLiteralTypeNode(keys.kids[i])
       THEN Throw(omitOrPickIdentifierName \o "<T, K> unknown syntax: ("
                  \o SyntaxKindName(
                       keys.kids[CHOOSE i \in 1..Len(keys.kids) :
                         /\ ~isLiteralTypeNode(keys.kids[i])
                         /\ \A j \in 1..(i - 1) : isLiteralTypeNode(keys.kids[j])])
                  \o " as K union part not supported)", deps)
       ELSE call(ObjectLiteral(
              [i \in 1..Len(keys.kids) |->
                 PropertyAssignment(LiteralText(keys.kids[i]), TrueExpr)]))
  ELSE Throw(omitOrPickIdentifierName \o "<T, K> unknown syntax: ("
             \o SyntaxKindName(keys) \o " as K not supported)", deps)

\* A SchemaExtensionClause; omitOrPickType is "" when the entry has none
ExtensionClause(extendedSchemaName, omitOrPickType, omitOrPickKeys) ==
  [extendedSchemaName |-> extendedSchemaName, omitOrPickType |-> omitOrPickType,
   omitOrPickKeys |-> omitOrPickKeys]

\* A faulty chain: the entries after the first are left out
buildZodExtendedSchemaFirstEntryOnly(schemaList, args, deps) ==
  LET base ==
        IF schemaList[1].omitOrPickType # "" /\ schemaList[1].omitOrPickKeys # <<>>
        THEN buildOmitPickObject(schemaList[1].omitOrPickType,
                                 schemaList[1].omitOrPickKeys[1],
                                 Identifier(schemaList[1].extendedSchemaName), deps)
        ELSE Ok(Identifier(schemaList[1].extendedSchemaName), deps)
  IN IF ~base.ok THEN base
     ELSE IF Len(args) > 0
     THEN Ok(CallExpr(PropertyAccess(base.expr, "extend"), args), deps)
     ELSE base

buildZodExtendedSchema(schemaList, args, deps) ==
  LET projected(i, onExpr) ==
        buildOmitPickObject(schemaList[i].omitOrPickType,
                            schemaList[i].omitOrPickKeys[1], onExpr, deps)
      hasProjection(i) ==
        schemaList[i].omitOrPickType # "" /\ schemaList[i].omitOrPickKeys # <<>>
      base ==
        IF hasProjection(1)
        THEN projected(1, Identifier(schemaList[1].extendedSchemaName))
        ELSE Ok(Identifier(schemaList[1].extendedSchemaName), deps)
      RECURSIVE chain(_, _)
      chain(i, acc) ==
        IF ~acc.ok \/ i > Len(schemaList) THEN acc
        ELSE LET entry ==
                   IF hasProjection(i)
                   THEN projected(i, Identifier(schemaList[i].extendedSchemaName))
                   ELSE Ok(Identifier(schemaList[i].extendedSchemaName), deps)
             IN IF ~entry.ok THEN entry
                ELSE chain(i + 1,
                       Ok(CallExpr(PropertyAccess(acc.expr, "extend"),
                                   <<PropertyAccess(entry.expr, "shape")>>), deps))
      chained == chain(2, base)
  IN IF ~chained.ok THEN chained
     ELSE IF Len(args) > 0
     THEN Ok(CallExpr(PropertyAccess(chained.expr, "extend"), args), deps)
     ELSE chained

-----------------------------------------------------------------------------
(* Indexed-access path rewriting.                                          *)

RECURSIVE Join(_, _)
Join(segments, sep) ==
  IF segments = <<>> THEN ""
  ELSE IF Len(segments) = 1 THEN segments[1]
  ELSE segments[1] \o sep \o Join(Tail(segments), sep)

\* Index texts of the model that are not of the form [a-zA-Z_$][a-zA-Z0-9_$]*
IsIdentifierText(text) == text \notin {"", "0", "1", "-1", "my-key", "first name"}

\* indexType.getText(sourceFile)
IndexTypeText(idx) == IF isLiteralTypeNode(idx) THEN LiteralText(idx) ELSE idx.name

\* /^['"]([^'"]+)['"]$/ on the index text
IsQuotedIndex(idx) ==
  isLiteralTypeNode(idx) /\ idx.lit = "StringLiteral" /\ idx.name # ""

\* objectType.getText(sourceFile).split("[")[0]
RECURSIVE RootText(_)
RootText(n) == IF n.kind = "IndexedAccessType" THEN RootText(n.kids[1]) ELSE n.name

RECURSIVE buildSchemaReference(_, _, _, _)
buildSchemaReference(node, ctx, deps, path) ==
  LET objectType == node.kids[1]
      indexType == node.kids[2]
      isString == IsQuotedIndex(indexType)
      indexTypeName == IF isString THEN indexType.name ELSE IndexTypeText(indexType)
      nested == objectType.kind = "IndexedAccessType"
      \* text.slice(1, -1) of the index text (the model's unquoted texts have
      \* at most two characters)
      SliceIndexText(idx) ==
        IF isLiteralTypeNode(idx) /\ idx.lit = "StringLiteral" THEN idx.name ELSE ""
      \* The members of the found declaration
      MembersOf(declaration) ==
        IF declaration.kind = "TypeAliasDeclaration"
        THEN IF declaration.kids[1].kind = "TypeLiteral" THEN declaration.kids[1].kids
             ELSE <<>>
        ELSE declaration.kids
  IN
  IF indexTypeName = "-1"
  THEN LET found ==
             findNode(ctx.sourceFile,
               {n \in {ctx.sourceFile[i] : i \in 1..Len(ctx.sourceFile)} :
                  /\ n.kind \in {"InterfaceDeclaration", "TypeAliasDeclaration"}
                  /\ nested
                  /\ n.name = RootText(objectType.kids[1])})
       IN IF found # <<>> /\ nested
          THEN LET key == SliceIndexText(objectType.kids[2])
                   hits == SelectSeq(MembersOf(found[1]),
                             LAMBDA m : m.kind # "IndexSignature" /\ m.name = key)
               IN IF hits # <<>> /\ hits[1].kind = "PropertySignature"
                  THEN LET memberType == hits[1].kids[1] IN
                       IF /\ isTypeReferenceNode(memberType)
                          /\ ~isQualifiedName(memberType)
                          /\ memberType.name \in (ctx.maybeConfig.typeNames \cup {"Array"})
                       THEN buildSchemaReference(objectType, ctx, deps,
                                                 <<"element">> \o path)
                       ELSE IF memberType.kind = "ArrayType"
                       THEN buildSchemaReference(objectType, ctx, deps,
                                                 <<"element">> \o path)
                       ELSE IF /\ isTypeReferenceNode(memberType)
                               /\ ~isQualifiedName(memberType)
                               /\ memberType.name = "Record"
                       THEN buildSchemaReference(objectType, ctx, deps,
                                                 <<"valueSchema">> \o path)
                       ELSE Ok(Identifier("any"), deps)
                  ELSE Ok(Identifier("any"), deps)
          ELSE Ok(Identifier("any"), deps)
  ELSE IF ~isString /\ nested
  THEN buildSchemaReference(objectType, ctx, deps,
                            <<"items[" \o indexTypeName \o "]">> \o path)
  ELSE IF nested
  THEN buildSchemaReference(objectType, ctx, deps, <<"shape", indexTypeName>> \o path)
  ELSE IF isTypeReferenceNode(objectType)
  THEN LET dependencyName == getDependencyName(objectType.name)
           deps2 == Append(deps, dependencyName)
       IN IF IsIdentifierText(indexTypeName)
          THEN Ok(PropertyAccess(Identifier(dependencyName),
                                 Join(<<"shape", indexTypeName>> \o path, ".")), deps2)
          ELSE Ok(ElementAccess(PropertyAccess(Identifier(dependencyName), "shape"),
                                StringLiteral(indexTypeName)), deps2)
  ELSE Throw("Unknown IndexedAccessTypeNode.objectType type", deps)

-----------------------------------------------------------------------------
(* The schema compiler proper.  fl is the record of the contextual flags   *)
(* isOptional / isNullable / isPartial / isRequired (FALSE for undefined), *)
(* ctx the per-call constants (maybeConfig, sourceFile, skipParseJSDoc,    *)
(* customJSDocFormatTypes), deps the dependency collector so far.          *)

\* Schema-override tag values of the model that start with "." (startsWith)
\* and what slice(1) leaves of them
SliceDot == (".int()" :> "int()") @@ (".email()" :> "email()")

Flags(isOptional, isNullable, isPartial, isRequired) ==
  [isOptional |-> isOptional, isNullable |-> isNullable, isPartial |-> isPartial,
   isRequired |-> isRequired]

Item(node, fl, tags) == [node |-> node, fl |-> fl, tags |-> tags]

\* A faulty keyword table: the string keyword compiled as a number
KeywordCallSwapped ==
  [StringKeyword |-> "number", BooleanKeyword |-> "boolean",
   UndefinedKeyword |-> "undefined", NumberKeyword |-> "number",
   AnyKeyword |-> "any", BigIntKeyword |-> "bigint", VoidKeyword |-> "void",
   NeverKeyword |-> "never", UnknownKeyword |-> "unknown"]

KeywordCall ==
  [StringKeyword |-> "string", BooleanKeyword |-> "boolean",
   UndefinedKeyword |-> "undefined", NumberKeyword |-> "number",
   AnyKeyword |-> "any", BigIntKeyword |-> "bigint", VoidKeyword |-> "void",
   NeverKeyword |-> "never", UnknownKeyword |-> "unknown"]

RECURSIVE buildZodPrimitive(_, _, _, _, _)
RECURSIVE buildZodPrimitiveInternal(_, _, _, _, _)
RECURSIVE buildEach(_, _, _)
RECURSIVE buildZodObject(_, _, _, _, _)
RECURSIVE buildZodProperties(_, _, _)

\* One more element in front of the results of a map that went on after it
mapCons(expr, rs) ==
  IF ~rs.ok THEN rs
  ELSE [ok |-> TRUE, exprs |-> <<expr>> \o rs.exprs, deps |-> rs.deps]

\* The map's callback returned r for the first item: a throw ends the map
mapStep(r, rest, ctx) ==
  IF ~r.ok THEN [ok |-> FALSE, expr |-> r.expr, exprs |-> <<>>, deps |-> r.deps]
  ELSE mapCons(r.expr, buildEach(rest, ctx, r.deps))

\* items.map((i) => buildZodPrimitive(...)): left to right, stopping at a throw
buildEach(items, ctx, deps) ==
  IF items = <<>> THEN [ok |-> TRUE, exprs |-> <<>>, deps |-> deps]
  ELSE mapStep(buildZodPrimitive(items[1].node, items[1].fl, items[1].tags, ctx, deps),
               Tail(items), ctx)

\* The tail of buildZodPrimitive: a dot-prefixed override is chained onto
\* the schema generated without the schema tag
applySchemaOverride(generatedSchema, tags) ==
  IF ~generatedSchema.ok THEN generatedSchema
  ELSE IF ~(HasTag(tags, "schema") /\ tags["schema"] # "")
  THEN generatedSchema
  ELSE Ok(PropertyAccess(generatedSchema.expr, SliceDot[tags["schema"]]),
          generatedSchema.deps)

\* delete jsDocTags.schema: the tags object of the caller once buildZodPrimitive
\* is over (an override without a dot returns before the delete)
tagsLeftBehind(tags) ==
  IF HasTag(tags, "schema") /\ tags["schema"] # "" /\ tags["schema"] \notin DOMAIN SliceDot
  THEN tags
  ELSE WithoutTag(tags, "schema")

\* A faulty buildZodPrimitive: the schema tag is left in the tags handed on
buildZodPrimitiveKeepingSchemaTag(typeNode_, fl, tags, ctx, deps) ==
  IF HasTag(tags, "schema") /\ tags["schema"] # "" /\ tags["schema"] \notin DOMAIN SliceDot
  THEN Ok(PropertyAccess(Identifier(ZImport), tags["schema"]), deps)
  ELSE applySchemaOverride(buildZodPrimitiveInternal(typeNode_, fl, tags, ctx, deps), tags)

buildZodPrimitive(typeNode_, fl, tags, ctx, deps) ==
  IF HasTag(tags, "schema") /\ tags["schema"] # "" /\ tags["schema"] \notin DOMAIN SliceDot
  THEN Ok(PropertyAccess(Identifier(ZImport), tags["schema"]), deps)
  ELSE applySchemaOverride(
         buildZodPrimitiveInternal(typeNode_, fl, WithoutTag(tags, "schema"), ctx, deps),
         tags)

\* The property of one member, compiled to r, followed by the other members
propertyStep(name, r, rest, ctx) ==
  IF ~r.ok THEN [ok |-> FALSE, expr |-> r.expr, exprs |-> <<>>, deps |-> r.deps]
  ELSE mapCons(PropertyAssignment(name, r.expr), buildZodProperties(rest, ctx, r.deps))

buildZodProperties(members, ctx, deps) ==
  IF members = <<>> THEN [ok |-> TRUE, exprs |-> <<>>, deps |-> deps]
  ELSE IF members[1].kind # "PropertySignature" \/ members[1].kids = <<>>
  THEN buildZodProperties(Tail(members), ctx, deps)
  ELSE propertyStep(members[1].name,
         buildZodPrimitive(members[1].kids[1],
           Flags(members[1].q, FALSE, FALSE, FALSE),
           IF ctx.skipParseJSDoc THEN NoTags ELSE members[1].tags, ctx, deps),
         Tail(members), ctx)

isPropertySignature(member) == member.kind = "PropertySignature"
isIndexSignatureDeclaration(member) == member.kind = "IndexSignature"

\* buildZodObject once the index signature's value type is compiled to r
objectWithIndexSignature(objectSchema, r) ==
  IF ~r.ok THEN r
  ELSE IF "none" \in DOMAIN objectSchema
  THEN Ok(buildZodSchema(ZImport, "record", <<r.expr>>, <<>>), r.deps)
  ELSE Ok(CallExpr(PropertyAccess(buildZodSchema(ZImport, "record", <<r.expr>>, <<>>),
                                  "and"),
                   <<objectSchema.expr>>), r.deps)

\* buildZodObject once objectSchema is built (the record with the field
\* none stands for an undefined objectSchema)
objectWithSchema(indexSignatures, ctx, deps, hasClauses, objectSchema) ==
  IF ~objectSchema.ok THEN objectSchema
  ELSE IF indexSignatures # <<>>
  THEN IF hasClauses
       THEN Throw("interface with extends and index signature are not supported!", deps)
       ELSE objectWithIndexSignature(objectSchema,
              buildZodPrimitive(indexSignatures[Len(indexSignatures)].kids[1],
                                Flags(FALSE, FALSE, FALSE, FALSE), NoTags, ctx, deps))
  ELSE IF "none" \in DOMAIN objectSchema
  THEN Ok(buildZodSchema(ZImport, "object", <<ObjectLiteral(<<>>)>>, <<>>), deps)
  ELSE objectSchema

\* buildZodObject once the properties are parsed
objectWithProperties(properties, indexSignatures, ctx, hasClauses, schemaExtensionClauses, parsed) ==
  IF ~parsed.ok THEN Throw(parsed.expr.name, parsed.deps)
  ELSE objectWithSchema(indexSignatures, ctx, parsed.deps, hasClauses,
         IF hasClauses /\ Len(schemaExtensionClauses) > 0
         THEN buildZodExtendedSchema(schemaExtensionClauses,
                IF Len(properties) > 0 THEN <<ObjectLiteral(parsed.exprs)>> ELSE <<>>,
                parsed.deps)
         ELSE IF Len(properties) > 0
         THEN Ok(buildZodSchema(ZImport, "object", <<ObjectLiteral(parsed.exprs)>>, <<>>),
                 parsed.deps)
         ELSE [ok |-> TRUE, none |-> TRUE, deps |-> parsed.deps])

\* schemaExtensionClauses is passed as a sequence; hasClauses says it is defined
buildZodObject(typeNode_, ctx, deps, hasClauses, schemaExtensionClauses) ==
  objectWithProperties(SelectSeq(typeNode_.kids, isPropertySignature),
    SelectSeq(typeNode_.kids, isIndexSignatureDeclaration), ctx, hasClauses,
    schemaExtensionClauses,
    IF Len(SelectSeq(typeNode_.kids, isPropertySignature)) > 0
    THEN buildZodProperties(SelectSeq(typeNode_.kids, isPropertySignature), ctx, deps)
    ELSE [ok |-> TRUE, exprs |-> <<>>, deps |-> deps])

\* The flags of a child compiled with only isNullable passed down
childFlags(isNullable) == Flags(FALSE, isNullable, FALSE, FALSE)

\* z.<callName>(children...) with the node's own modifiers, rs being the
\* compiled children
schemaOfChildren(callName, properties, rs) ==
  IF ~rs.ok THEN Throw(rs.expr.name, rs.deps)
  ELSE Ok(buildZodSchema(ZImport, callName, rs.exprs, properties), rs.deps)

\* withZodProperties over a compiled expression r
schemaWithProperties(zodProperties, r) ==
  IF ~r.ok THEN r ELSE Ok(withZodProperties(r.expr, zodProperties), r.deps)

\* The Maybe wrapper around its compiled argument r
maybeSchema(isOptional, r) ==
  IF ~r.ok THEN r ELSE Ok(maybeCall(r.expr, isOptional), r.deps)

\* Omit / Pick over its compiled base zodCall
omitPickSchema(identifierName, keys, zodCall) ==
  IF ~zodCall.ok THEN zodCall
  ELSE buildOmitPickObject(identifierName, keys, zodCall.expr, zodCall.deps)

\* A faulty validation: an object literal passes without the discriminator
isValidDiscriminatedUnionAnyObject(nodes, tags) ==
  \A i \in 1..Len(nodes) :
    nodes[i].kind = "TypeLiteral" \/ isTypeReferenceNode(nodes[i])

isValidDiscriminatedUnion(nodes, tags) ==
  \A i \in 1..Len(nodes) :
    /\ nodes[i].kind = "TypeLiteral" \/ isTypeReferenceNode(nodes[i])
    /\ nodes[i].kind = "TypeLiteral" =>
         \E j \in 1..Len(nodes[i].kids) :
           /\ nodes[i].kids[j].kind = "PropertySignature"
           /\ nodes[i].kids[j].name = tags["discriminator"]

\* The union over its compiled non-null arms values
unionSchema(nodes, tags, properties, values) ==
  IF ~values.ok THEN Throw(values.expr.name, values.deps)
  ELSE IF HasTag(tags, "discriminator") /\ tags["discriminator"] # ""
          /\ isValidDiscriminatedUnion(nodes, tags)
  THEN Ok(buildZodSchema(ZImport, "discriminatedUnion",
            <<StringLiteral(tags["discriminator"]), ArrayLiteral(values.exprs)>>,
            properties), values.deps)
  ELSE Ok(buildZodSchema(ZImport, "union", <<ArrayLiteral(values.exprs)>>, properties),
          values.deps)

\* The UnionType branch: nodes are the arms that are not null
unionOf(nodes, hasNull, fl, tags, ctx, deps, zodProperties) ==
  IF Len(nodes) = 1
  THEN buildZodPrimitive(nodes[1], Flags(fl.isOptional, hasNull, FALSE, FALSE),
                         tags, ctx, deps)
  ELSE unionSchema(nodes, tags,
         zodProperties \o (IF hasNull THEN <<ZodProperty("nullable", <<>>)>> ELSE <<>>),
         buildEach([i \in 1..Len(nodes) |-> Item(nodes[i], childFlags(FALSE), NoTags)],
                   ctx, deps))

\* The tuple with a rest element compiled to r
tupleWithRest(exprs, zodProperties, r) ==
  IF ~r.ok THEN r
  ELSE Ok(buildZodSchema(ZImport, "tuple", <<ArrayLiteral(exprs)>>,
            <<ZodProperty("rest", <<r.expr>>)>> \o zodProperties), r.deps)

\* The tuple over its compiled fixed slots values
tupleWithValues(lastItem, hasRest, fl, ctx, zodProperties, values) ==
  IF ~values.ok THEN Throw(values.expr.name, values.deps)
  ELSE IF hasRest
  THEN tupleWithRest(values.exprs, zodProperties,
         buildZodPrimitive(lastItem.kids[1].kids[1], childFlags(fl.isNullable),
                           NoTags, ctx, values.deps))
  ELSE Ok(buildZodSchema(ZImport, "tuple", <<ArrayLiteral(values.exprs)>>,
                         zodProperties), values.deps)

tupleSlot(n) == IF n.kind = "NamedTupleMember" THEN n.kids[1] ELSE n

\* The TupleType branch
tupleOf(args, fl, ctx, deps, zodProperties) ==
  IF args = <<>>
  THEN Throw("TypeError: Cannot read properties of undefined", deps)
  ELSE
  LET lastItem == args[Len(args)]
      hasRest == lastItem.kind = "RestType" /\ lastItem.kids[1].kind = "ArrayType"
      fixed == IF hasRest THEN SubSeq(args, 1, Len(args) - 1) ELSE args
  IN tupleWithValues(lastItem, hasRest, fl, ctx, zodProperties,
       buildEach([i \in 1..Len(fixed) |->
                    Item(tupleSlot(fixed[i]), childFlags(fl.isNullable), NoTags)],
                 ctx, deps))

\* rest.reduce((acc, node) => acc.and(node), first)
RECURSIVE andChain(_, _, _)
andChain(acc, exprs, i) ==
  IF i > Len(exprs) THEN acc
  ELSE andChain(CallExpr(PropertyAccess(acc, "and"), <<exprs[i]>>), exprs, i + 1)

\* The intersection over its compiled members rs
intersectionSchema(zodProperties, rs) ==
  IF ~rs.ok THEN Throw(rs.expr.name, rs.deps)
  ELSE Ok(withZodProperties(andChain(rs.exprs[1], rs.exprs, 2), zodProperties), rs.deps)

\* The function schema over its compiled return type returnsR
functionWithReturns(argExprs, zodProperties, returnsR) ==
  IF ~returnsR.ok THEN returnsR
  ELSE Ok(buildZodSchema(ZImport, "function", <<>>,
            <<ZodProperty("args", argExprs),
              ZodProperty("returns", <<returnsR.expr>>)>> \o zodProperties),
          returnsR.deps)

\* The function schema over its compiled parameters argsR
functionWithArgs(returnType, tags, ctx, zodProperties, argsR) ==
  IF ~argsR.ok THEN Throw(argsR.expr.name, argsR.deps)
  ELSE functionWithReturns(argsR.exprs, zodProperties,
         buildZodPrimitive(returnType, childFlags(FALSE), tags, ctx, argsR.deps))

\* The FunctionType branch: args holds the parameters and then the return type
functionOf(args, tags, ctx, deps, zodProperties) ==
  functionWithArgs(args[Len(args)], tags, ctx, zodProperties,
    buildEach([i \in 1..Len(args) - 1 |->
                 Item(IF args[i].kids = <<>> THEN AnyKw ELSE args[i].kids[1],
                      Flags(args[i].q, FALSE, FALSE, FALSE), tags)], ctx, deps))

\* The declaration a template span's type reference names: a type alias of a
\* union or an enum (a sequence with the declaration, or empty)
templateTarget(span, sourceFile) ==
  findNode(sourceFile,
    {n \in {sourceFile[i] : i \in 1..Len(sourceFile)} :
       /\ \/ n.kind = "TypeAliasDeclaration" /\ n.kids[1].kind = "UnionType"
          \/ n.kind = "EnumDeclaration"
       /\ n.name = span.kids[1].name})

isNonEmptyText(v) == v # ""

\* The lists pushed to spanValues while browsing one span
spanPushed(span, target) ==
  LET unionArmValue(arm) ==
        IF isLiteralTypeNode(arm) THEN extractLiteralValue(arm) ELSE ""
      enumMemberValue(member) ==
        IF member.kids # <<>> THEN extractLiteralValue(member.kids[1]) ELSE ""
  IN
  (IF ~isTypeReferenceNode(span.kids[1]) \/ target = <<>> THEN <<>>
   ELSE IF target[1].kind = "TypeAliasDeclaration"
   THEN <<SelectSeq([i \in 1..Len(target[1].kids[1].kids) |->
                       unionArmValue(target[1].kids[1].kids[i])], isNonEmptyText)>>
   ELSE <<SelectSeq([i \in 1..Len(target[1].kids) |-> enumMemberValue(target[1].kids[i])],
                    isNonEmptyText)>>)
  \o <<<<span.name>>>>

\* The span sets ignoreNode
spanIgnores(span, target) ==
  \/ ~isTypeReferenceNode(span.kids[1])
  \/ target = <<>>
  \/ /\ target[1].kind = "EnumDeclaration"
     /\ \E i \in 1..Len(target[1].kids) : target[1].kids[i].kids = <<>>

\* The span sets hasNull
spanNulls(span, target) ==
  /\ isTypeReferenceNode(span.kids[1]) /\ target # <<>>
  /\ target[1].kind = "TypeAliasDeclaration"
  /\ \E i \in 1..Len(target[1].kids[1].kids) : ~isNotNull(target[1].kids[1].kids[i])

RECURSIVE collectSpanValues(_, _)
collectSpanValues(spans, sourceFile) ==
  IF spans = <<>> THEN <<>>
  ELSE spanPushed(spans[1], templateTarget(spans[1], sourceFile))
       \o collectSpanValues(Tail(spans), sourceFile)

\* The end of the TemplateLiteralType branch
templateSchema(ignoreNode, properties, combos, deps) ==
  IF ~ignoreNode
  THEN Ok(buildZodSchema(ZImport, "union",
            <<ArrayLiteral([i \in 1..Len(combos) |->
                buildZodSchema(ZImport, "literal", <<StringLiteral(combos[i])>>, <<>>)])>>,
            properties), deps)
  ELSE Ok(buildZodSchema(ZImport, "any", <<>>, properties), deps)

\* The TemplateLiteralType branch: head is the template's head text
templateOf(head, spans, ctx, deps, zodProperties) ==
  templateSchema(
    \E i \in 1..Len(spans) : spanIgnores(spans[i], templateTarget(spans[i], ctx.sourceFile)),
    zodProperties
      \o (IF \E i \in 1..Len(spans) :
               spanNulls(spans[i], templateTarget(spans[i], ctx.sourceFile))
          THEN <<ZodProperty("nullable", <<>>)>> ELSE <<>>),
    generateCombinations(<<<<head>>>> \o collectSpanValues(spans, ctx.sourceFile)),
    deps)

\* The switch of buildZodPrimitiveInternal, zodProperties being computed
buildZodPrimitiveInternalSwitch(typeNode_, fl, tags, ctx, deps, zodProperties) ==
  LET kind == typeNode_.kind
      args == typeNode_.kids
      identifierName == typeNode_.name
  IN
  IF kind = "ParenthesizedType"
  THEN buildZodPrimitive(args[1], Flags(fl.isOptional, fl.isNullable, FALSE, FALSE),
                         tags, ctx, deps)
  ELSE IF isTypeReferenceNode(typeNode_) /\ ~isQualifiedName(typeNode_)
  THEN
    IF identifierName \in ctx.maybeConfig.typeNames /\ typeNode_.hasArgs
    THEN maybeSchema(fl.isOptional,
           buildZodPrimitive(args[1],
             Flags(FALSE, fl.isNullable, fl.isPartial, fl.isRequired), NoTags, ctx, deps))
    ELSE IF identifierName = "Array" /\ typeNode_.hasArgs
    THEN buildZodPrimitive(ArrayT(args[1]), fl, tags, ctx, deps)
    ELSE IF identifierName = "Partial" /\ typeNode_.hasArgs
    THEN buildZodPrimitive(args[1], Flags(fl.isOptional, fl.isNullable, TRUE, FALSE),
                           tags, ctx, deps)
    ELSE IF identifierName = "Required" /\ typeNode_.hasArgs
    THEN buildZodPrimitive(args[1], Flags(fl.isOptional, fl.isNullable, FALSE, TRUE),
                           tags, ctx, deps)
    ELSE IF identifierName = "Readonly" /\ typeNode_.hasArgs
    THEN buildZodPrimitive(args[1], Flags(fl.isOptional, fl.isNullable, FALSE, FALSE),
                           tags, ctx, deps)
    ELSE IF identifierName = "ReadonlyArray" /\ typeNode_.hasArgs
    THEN schemaOfChildren("array", zodProperties,
           buildEach(<<Item(args[1], childFlags(fl.isNullable), NoTags)>>, ctx, deps))
    ELSE IF identifierName = "Record" /\ typeNode_.hasArgs
    THEN schemaOfChildren("record", zodProperties,
           buildEach(IF args[1].kind = "StringKeyword"
                     THEN <<Item(args[2], childFlags(fl.isNullable), tags)>>
                     ELSE <<Item(args[1], childFlags(fl.isNullable), tags),
                            Item(args[2], childFlags(fl.isNullable), tags)>>, ctx, deps))
    ELSE IF identifierName = "Date"
    THEN Ok(buildZodSchema(ZImport, "date", <<>>, zodProperties), deps)
    ELSE IF identifierName \in {"Set", "Promise"} /\ typeNode_.hasArgs
    THEN schemaOfChildren(IF identifierName = "Set" THEN "set" ELSE "promise",
           zodProperties,
           buildEach([i \in 1..Len(args) |-> Item(args[i], childFlags(fl.isNullable), tags)],
                     ctx, deps))
    ELSE IF identifierName \in {"Omit", "Pick"} /\ typeNode_.hasArgs
    THEN omitPickSchema(identifierName, args[2],
           buildZodPrimitive(args[1], childFlags(fl.isNullable), NoTags, ctx, deps))
    ELSE Ok(withZodProperties(Identifier(getDependencyName(identifierName)), zodProperties),
            Append(deps, getDependencyName(identifierName)))
  ELSE IF kind = "UnionType"
  THEN unionOf(SelectSeq(args, isNotNull), \E i \in 1..Len(args) : ~isNotNull(args[i]),
               fl, tags, ctx, deps, zodProperties)
  ELSE IF kind = "TupleType"
  THEN tupleOf(args, fl, ctx, deps, zodProperties)
  ELSE IF isLiteralTypeNode(typeNode_) /\ typeNode_.lit = "StringLiteral"
  THEN Ok(buildZodSchema(ZImport, "literal", <<StringLiteral(typeNode_.name)>>,
                         zodProperties), deps)
  ELSE IF isLiteralTypeNode(typeNode_) /\ typeNode_.lit = "NumericLiteral"
  THEN Ok(buildZodSchema(ZImport, "literal", <<NumericLiteral(typeNode_.name)>>,
                         zodProperties), deps)
  ELSE IF isLiteralTypeNode(typeNode_) /\ typeNode_.lit = "MinusNumericLiteral"
  THEN Ok(buildZodSchema(ZImport, "literal",
                         <<PrefixMinus(NumericLiteral(typeNode_.name))>>,
                         zodProperties), deps)
  ELSE IF isLiteralTypeNode(typeNode_) /\ typeNode_.lit = "TrueKeyword"
  THEN Ok(buildZodSchema(ZImport, "literal", <<TrueExpr>>, zodProperties), deps)
  ELSE IF isLiteralTypeNode(typeNode_) /\ typeNode_.lit = "FalseKeyword"
  THEN Ok(buildZodSchema(ZImport, "literal", <<E("False", "", <<>>)>>, zodProperties), deps)
  ELSE IF isTypeReferenceNode(typeNode_) /\ isQualifiedName(typeNode_)
  THEN Ok(buildZodSchema(ZImport, "literal",
            <<PropertyAccess(Identifier(typeNode_.left), typeNode_.name)>>,
            zodProperties), deps)
  ELSE IF kind = "ArrayType"
  THEN schemaOfChildren("array", zodProperties,
         buildEach(<<Item(args[1], childFlags(fl.isNullable), elementTags(tags))>>,
                   ctx, deps))
  ELSE IF kind = "TypeLiteral"
  THEN schemaWithProperties(zodProperties, buildZodObject(typeNode_, ctx, deps, FALSE, <<>>))
  ELSE IF kind = "IntersectionType"
  THEN intersectionSchema(zodProperties,
         buildEach([i \in 1..Len(args) |-> Item(args[i], childFlags(FALSE), NoTags)],
                   ctx, deps))
  ELSE IF isLiteralTypeNode(typeNode_)
  THEN Ok(buildZodSchema(ZImport, LiteralText(typeNode_), <<>>, zodProperties), deps)
  ELSE IF kind = "FunctionType"
  THEN functionOf(args, tags, ctx, deps, zodProperties)
  ELSE IF kind = "IndexedAccessType"
  THEN schemaWithProperties(zodProperties, buildSchemaReference(typeNode_, ctx, deps, <<>>))
  ELSE IF kind \in DOMAIN KeywordCall
  THEN Ok(buildZodSchema(ZImport, KeywordCall[kind], <<>>, zodProperties), deps)
  ELSE IF kind = "ObjectKeyword"
  THEN Ok(buildZodSchema(ZImport, "record",
                         <<buildZodSchema(ZImport, "any", <<>>, <<>>)>>, zodProperties),
          deps)
  ELSE IF kind = "TemplateLiteralType"
  THEN templateOf(typeNode_.name, args, ctx, deps, zodProperties)
  ELSE Ok(buildZodSchema(ZImport, "any", <<>>, zodProperties), deps)

\* A faulty fallback: a node kind without a rule raises an error
buildZodPrimitiveInternalRejectingUnknownKinds(typeNode_, fl, tags, ctx, deps) ==
  IF typeNode_.kind = "ConditionalType"
  THEN Throw("ConditionalType is not supported", deps)
  ELSE buildZodPrimitiveInternalSwitch(typeNode_, fl, tags, ctx, deps,
         jsDocTagToZodProperties(tags, ctx.customJSDocFormatTypes, fl.isOptional,
                                 fl.isPartial, fl.isRequired, fl.isNullable))

buildZodPrimitiveInternal(typeNode_, fl, tags, ctx, deps) ==
  buildZodPrimitiveInternalSwitch(typeNode_, fl, tags, ctx, deps,
    jsDocTagToZodProperties(tags, ctx.customJSDocFormatTypes, fl.isOptional,
                            fl.isPartial, fl.isRequired, fl.isNullable))

-----------------------------------------------------------------------------
(* generateZodSchemaVariableStatement: one declaration to one statement.   *)

\* A faulty finalisation: the collector is returned as it is
uniqKeepingAll(xs) == xs

\* lodash uniq: first occurrences, in order
RECURSIVE uniq(_)
uniq(xs) ==
  IF xs = <<>> THEN <<>>
  ELSE LET front == uniq(SubSeq(xs, 1, Len(xs) - 1))
           last == xs[Len(xs)]
       IN IF \E i \in 1..Len(front) : front[i] = last THEN front
          ELSE Append(front, last)

\* A faulty extractor: the tags object of the previous call is handed out again
getJSDocTagsReusingObject(node, previous) == previous

\* getJSDocTags(node, sourceFile): a new object read from the node's comment
\* at every call, whatever became of the object of a previous call
getJSDocTags(node, previous) == node.tags

\* The SchemaExtensionClause of one entry of an extends clause
heritageClause(expression) ==
  IF expression.name \in {"Omit", "Pick"} /\ expression.hasArgs
  THEN ExtensionClause(getDependencyName(expression.kids[1].name), expression.name,
                       <<expression.kids[2]>>)
  ELSE ExtensionClause(getDependencyName(expression.name), "", <<>>)

VariableStatement(varName, schema, dependencies, enumImport) ==
  [ok |-> TRUE, varName |-> varName, expr |-> schema, dependencies |-> dependencies,
   enumImport |-> enumImport]

\* The statement around the compiled schema of an interface or a type alias
statementOf(varName, strict, schema) ==
  IF ~schema.ok THEN schema
  ELSE VariableStatement(varName,
         IF strict THEN CallExpr(PropertyAccess(schema.expr, "strict"), <<>>)
         ELSE schema.expr,
         uniq(schema.deps), FALSE)

generateZodSchemaVariableStatement(node, varName, ctx) ==
  IF node.kind = "InterfaceDeclaration"
  THEN IF node.hasTP
       THEN Throw("Interface with generics are not supported!", <<>>)
       ELSE statementOf(varName, ~ctx.skipParseJSDoc /\ HasTag(node.tags, "strict"),
              buildZodObject(node, ctx,
                [i \in 1..Len(node.heritage) |->
                   heritageClause(node.heritage[i]).extendedSchemaName],
                node.heritage # <<>>,
                [i \in 1..Len(node.heritage) |-> heritageClause(node.heritage[i])]))
  ELSE IF node.kind = "TypeAliasDeclaration"
  THEN IF node.hasTP
       THEN Throw("Type with generics are not supported!", <<>>)
       ELSE statementOf(varName, FALSE,
              buildZodPrimitive(node.kids[1], Flags(FALSE, FALSE, FALSE, FALSE),
                IF ctx.skipParseJSDoc THEN NoTags ELSE node.tags, ctx, <<>>))
  ELSE VariableStatement(varName,
         buildZodSchema(ZImport, "nativeEnum", <<Identifier(node.name)>>, <<>>),
         <<>>, TRUE)

-----------------------------------------------------------------------------
(* generateZodSchema: the generics-aware entry point.  It returns runtime  *)
(* schema objects; state is [genericMap, maybeConfig, rawFileAst].         *)

Z(kind, inner, shape) == [z |-> kind, inner |-> inner, shape |-> shape]
ZString == Z("string", <<>>, <<>>)
ZNumber == Z("number", <<>>, <<>>)
ZUnknown == Z("unknown", <<>>, <<>>)
ZOptional(schema) == Z("optional", <<schema>>, <<>>)
ZNullable(schema) == Z("nullable", <<schema>>, <<>>)
ZObject(shape) == Z("object", <<>>, shape)
ShapeEntry(name, schema) == [name |-> name, schema |-> schema]

\* How a call ends: "ok" with a schema, "error" (a thrown Error) or
\* "overflow" (it re-entered itself with the same arguments, so the recursion
\* has no end and the runtime's call stack is exhausted)
Returned(schema) == [status |-> "ok", schema |-> schema, msg |-> ""]
Raised(msg) == [status |-> "error", schema |-> ZUnknown, msg |-> msg]
Overflow == [status |-> "overflow", schema |-> ZUnknown, msg |-> ""]

\* shape[propName] = propSchema on a JS object: a repeated key keeps its place
SetShape(shape, name, schema) ==
  IF \E i \in 1..Len(shape) : shape[i].name = name
  THEN [i \in 1..Len(shape) |->
          IF shape[i].name = name THEN ShapeEntry(name, schema) ELSE shape[i]]
  ELSE Append(shape, ShapeEntry(name, schema))

\* A faulty test: every boolean literal counts as true
isLiteralTrueNodeAnyLiteral(node) ==
  \/ isLiteralTypeNode(node) /\ node.lit \in {"TrueKeyword", "FalseKeyword"}
  \/ node.kind = "TrueKeyword"

isLiteralTrueNode(node) ==
  \/ isLiteralTypeNode(node) /\ node.lit = "TrueKeyword"
  \/ node.kind = "TrueKeyword"

findInterfaceOrTypeAliasDecl(name, sourceFile) ==
  SelectSeq(sourceFile,
    LAMBDA stmt : /\ stmt.kind \in {"InterfaceDeclaration", "TypeAliasDeclaration"}
                  /\ stmt.name = name)

MapSet(map, k, v) == [x \in DOMAIN map \cup {k} |-> IF x = k THEN v ELSE map[x]]
MapDelete(map, k) == [x \in DOMAIN map \ {k} |-> map[x]]

\* decl.typeParameters.forEach: each parameter that has a type argument is
\* bound to it, from the i-th on
RECURSIVE bindTypeArguments(_, _, _, _)
bindTypeArguments(map, tparams, typeArguments, i) ==
  IF i > Len(tparams) THEN map
  ELSE bindTypeArguments(IF i <= Len(typeArguments)
                         THEN MapSet(map, tparams[i], typeArguments[i]) ELSE map,
                         tparams, typeArguments, i + 1)

RECURSIVE generateZodSchemaOn(_, _, _)
RECURSIVE generateInterfaceMembersSchema(_, _, _, _)
RECURSIVE generateMaybeInterfaceSchema(_, _, _)

\* stack: the (node, genericMap) pairs of the calls in progress
generateZodSchemaOn(node, state, stack) ==
  IF <<node, state.genericMap>> \in stack THEN Overflow
  ELSE
  LET stack2 == stack \cup {<<node, state.genericMap>>}
      decl == findInterfaceOrTypeAliasDecl(node.name, state.rawFileAst)
  IN
  IF /\ isTypeReferenceNode(node) /\ node.hasArgs /\ Len(node.kids) > 0
     /\ decl # <<>> /\ decl[1].hasTP
  THEN generateZodSchemaOn(decl[1],
         [state EXCEPT !.genericMap =
            bindTypeArguments(state.genericMap, decl[1].tparams, node.kids, 1)],
         stack2)
  ELSE IF isTypeReferenceNode(node) /\ node.name \in DOMAIN state.genericMap
  THEN generateZodSchemaOn(state.genericMap[node.name], state, stack2)
  ELSE IF node.kind = "InterfaceDeclaration" /\ node.name \in state.maybeConfig.typeNames
  THEN generateMaybeInterfaceSchema(node, state, stack2)
  ELSE CASE node.kind = "StringKeyword" -> Returned(ZString)
         [] node.kind = "NumberKeyword" -> Returned(ZNumber)
         [] node.kind = "BooleanKeyword" -> Returned(Z("boolean", <<>>, <<>>))
         [] node.kind = "TypeLiteral" -> generateZodSchemaOn(node, state, stack2)
         [] node.kind = "UnionType" -> generateZodSchemaOn(node, state, stack2)
         [] OTHER -> Returned(ZUnknown)

generateMaybeInterfaceSchema(node, state, stack) ==
  IF ~node.hasTP \/ Len(node.tparams) # 1
  THEN Raised("maybeTypeNames interface must have exactly one generic parameter")
  ELSE LET genericName == node.tparams[1]
           concreteGeneric == IF genericName \in DOMAIN state.genericMap
                              THEN state.genericMap[genericName] ELSE TrueLit
           enabled == isLiteralTrueNode(concreteGeneric)
           newState == [state EXCEPT !.genericMap = MapDelete(state.genericMap, genericName)]
       IN generateInterfaceMembersSchema(node, newState, ~enabled, stack)

generateInterfaceMembersSchema(node, state, makeOptionalNullable, stack) ==
  LET RECURSIVE each(_, _)
      each(i, shape) ==
        IF i > Len(node.kids) THEN Returned(ZObject(shape))
        ELSE LET member == node.kids[i] IN
             IF member.kind # "PropertySignature" \/ member.kids = <<>>
             THEN each(i + 1, shape)
             ELSE LET r == generateZodSchemaOn(member.kids[1], state, stack)
                      opt == IF state.maybeConfig.optional THEN ZOptional(r.schema)
                             ELSE r.schema
                      propSchema ==
                        IF makeOptionalNullable
                        THEN IF state.maybeConfig.nullable THEN ZNullable(opt) ELSE opt
                        ELSE IF member.q THEN ZOptional(r.schema) ELSE r.schema
                  IN IF r.status # "ok" THEN r
                     ELSE each(i + 1, SetShape(shape, member.name, propSchema))
  IN each(1, <<>>)

generateZodSchema(node, state) == generateZodSchemaOn(node, state, {})

\* A faulty fork: newGenericMap is the caller's map itself, not a copy
mapAfterForkAliased(callerMap, copyAfter) == copyAfter

\* new Map(state.genericMap): the set / delete that follow are done on the
\* copy, so the caller's map keeps its entries whatever the copy becomes
mapAfterFork(callerMap, copyAfter) == callerMap

RECURSIVE genericMapAfter(_, _, _)
RECURSIVE membersMapAfter(_, _, _, _)

\* The entries of the map object state.genericMap once generateZodSchema(node,
\* state) is over; the calls follow those of generateZodSchemaOn
genericMapAfter(node, state, stack) ==
  IF <<node, state.genericMap>> \in stack THEN state.genericMap
  ELSE
  LET stack2 == stack \cup {<<node, state.genericMap>>}
      decl == findInterfaceOrTypeAliasDecl(node.name, state.rawFileAst)
  IN
  IF /\ isTypeReferenceNode(node) /\ node.hasArgs /\ Len(node.kids) > 0
     /\ decl # <<>> /\ decl[1].hasTP
  THEN mapAfterFork(state.genericMap,
         genericMapAfter(decl[1],
           [state EXCEPT !.genericMap =
              bindTypeArguments(state.genericMap, decl[1].tparams, node.kids, 1)],
           stack2))
  ELSE IF isTypeReferenceNode(node) /\ node.name \in DOMAIN state.genericMap
  THEN genericMapAfter(state.genericMap[node.name], state, stack2)
  ELSE IF node.kind = "InterfaceDeclaration" /\ node.name \in state.maybeConfig.typeNames
  THEN IF ~node.hasTP \/ Len(node.tparams) # 1 THEN state.genericMap
       ELSE mapAfterFork(state.genericMap,
              membersMapAfter(node,
                [state EXCEPT !.genericMap = MapDelete(state.genericMap, node.tparams[1])],
                stack2, 1))
  ELSE IF node.kind \in {"TypeLiteral", "UnionType"}
  THEN genericMapAfter(node, state, stack2)
  ELSE state.genericMap

\* The same map once the members from the i-th on are compiled, each under
\* the map as the member before it left it
membersMapAfter(node, state, stack, i) ==
  IF i > Len(node.kids) THEN state.genericMap
  ELSE IF node.kids[i].kind # "PropertySignature" \/ node.kids[i].kids = <<>>
  THEN membersMapAfter(node, state, stack, i + 1)
  ELSE membersMapAfter(node,
         [state EXCEPT !.genericMap = genericMapAfter(node.kids[i].kids[1], state, stack)],
         stack, i + 1)

-----------------------------------------------------------------------------
(* The source file the calls run against, and the inputs of the model.     *)

\* interface Box<T> { value: T }                type Pair<T, U> = [T, U]
\* interface Flag<T extends boolean = true> { x: string; y?: number }
\* interface Bare { x: string }                 interface Outer<T> { a: Inner<T> }
\* interface Inner<T> { x: string }             interface Person { age: number; tags: string[] }
\* type AB = "a" | "b"   type ABN = "a" | null   type Mixed = "" | "a"
\* enum Color { Red = "red", Blue = "blue" }    enum One { A = "a" }   enum EAB { A, B }
\* interface Duo<T, U> { x: string }            interface Wrap<T> { v: T; w?: { a: string } }
SourceFile ==
  <<Interface("Box", TRUE, <<"T">>, <<>>, <<Prop("value", FALSE, Ref("T"), NoTags)>>, NoTags),
    TypeAlias("Pair", TRUE, <<"T", "U">>, Tuple(<<Ref("T"), Ref("U")>>), NoTags),
    Interface("Flag", TRUE, <<"T">>, <<>>,
              <<Prop("x", FALSE, StringKw, NoTags), Prop("y", TRUE, NumberKw, NoTags)>>,
              NoTags),
    Interface("Bare", FALSE, <<>>, <<>>, <<Prop("x", FALSE, StringKw, NoTags)>>, NoTags),
    Interface("Outer", TRUE, <<"T">>, <<>>,
              <<Prop("a", FALSE, RefArgs("Inner", <<Ref("T")>>), NoTags)>>, NoTags),
    Interface("Inner", TRUE, <<"T">>, <<>>, <<Prop("x", FALSE, StringKw, NoTags)>>, NoTags),
    Interface("Person", FALSE, <<>>, <<>>,
              <<Prop("age", FALSE, NumberKw, NoTags),
                Prop("tags", FALSE, ArrayT(StringKw), NoTags)>>, NoTags),
    TypeAlias("AB", FALSE, <<>>, Union(<<StrLit("a"), StrLit("b")>>), NoTags),
    TypeAlias("ABN", FALSE, <<>>, Union(<<StrLit("a"), NullLit>>), NoTags),
    TypeAlias("Mixed", FALSE, <<>>, Union(<<StrLit(""), StrLit("a")>>), NoTags),
    TypeAlias("Loose", FALSE, <<>>, Union(<<StrLit("a"), StringKw>>), NoTags),
    Enum("Color", <<EnumMember("Red", <<StrLit("red")>>),
                    EnumMember("Blue", <<StrLit("blue")>>)>>),
    Enum("One", <<EnumMember("A", <<StrLit("a")>>)>>),
    Enum("EAB", <<EnumMember("A", <<>>), EnumMember("B", <<>>)>>),
    Interface("Duo", TRUE, <<"T", "U">>, <<>>, <<Prop("x", FALSE, StringKw, NoTags)>>,
              NoTags),
    Interface("Wrap", TRUE, <<"T">>, <<>>,
              <<Prop("v", FALSE, Ref("T"), NoTags),
                Prop("w", TRUE, TypeLit(<<Prop("a", FALSE, StringKw, NoTags)>>), NoTags)>>,
              NoTags)>>

MaxDepth == 2

Leaves == {StringKw, Ref("Person")}

KindLit(text) == Prop("kind", FALSE, StrLit(text), NoTags)

Specials ==
  LET
      Keywords ==
        {StringKw, NumberKw, BooleanKw, Kw("BigIntKeyword"), AnyKw, Kw("UnknownKeyword"),
         Kw("NeverKeyword"), VoidKw, Kw("UndefinedKeyword"), Kw("ObjectKeyword")}
      Templates ==
        {Template("x-", <<Span(Ref("AB"), "")>>),
         Template("x-", <<Span(Ref("ABN"), "")>>),
         Template("x-", <<Span(Ref("Mixed"), "")>>),
         Template("x-", <<Span(Ref("Loose"), "")>>),
         Template("", <<Span(Ref("AB"), "-"), Span(Ref("Color"), "!")>>),
         Template("x-", <<Span(Ref("One"), "")>>),
         Template("x-", <<Span(Ref("EAB"), "")>>),
         Template("x-", <<Span(Ref("Missing"), "")>>),
         Template("x-", <<Span(StringKw, "")>>)}
      DiscriminatedCandidates ==
        {Union(<<TypeLit(<<KindLit("a"), Prop("v", FALSE, StringKw, NoTags)>>),
                 TypeLit(<<KindLit("b"), Prop("v", FALSE, NumberKw, NoTags)>>)>>),
         Union(<<TypeLit(<<KindLit("a")>>), Ref("Person"), NullLit>>),
         Union(<<TypeLit(<<KindLit("a")>>), TypeLit(<<Prop("v", FALSE, StringKw, NoTags)>>)>>),
         Union(<<TypeLit(<<KindLit("a")>>), StringKw, NullLit>>),
         Union(<<NullLit, TypeLit(<<KindLit("a")>>), QRef("Color", "Red")>>)}
  IN
  Keywords \cup Templates \cup DiscriminatedCandidates \cup
  {NullLit, StrLit("a"), NumLit("1"), MinusLit("1"), TrueLit, FalseLit,
   QRef("Color", "Red"), Ref("Date"), Node("ConditionalType", "", <<>>),
   Union(<<NullLit, NullLit>>), Union(<<StringKw, NumberKw, NullLit>>),
   Tuple(<<>>), Tuple(<<StringKw, NamedMember("rest", ArrayT(NumberKw), TRUE)>>),
   Intersection(<<Ref("Person"), TypeLit(<<Prop("a", TRUE, StringKw, NoTags)>>)>>),
   FunctionT(<<Param("a", TRUE, StringKw), Param("b", FALSE, Ref("Person"))>>, VoidKw),
   IndexedAccess(Ref("Person"), StrLit("age")),
   IndexedAccess(IndexedAccess(Ref("Person"), StrLit("tags")), MinusLit("1")),
   IndexedAccess(IndexedAccess(Ref("Person"), StrLit("tags")), NumLit("0")),
   IndexedAccess(IndexedAccess(Ref("Person"), StrLit("my-key")), StrLit("age")),
   IndexedAccess(Ref("Person"), NumLit("0")),
   Tuple(<<StringKw, RestT(RefArgs("Array", <<NumberKw>>))>>),
   Tuple(<<NamedMember("a", StringKw, FALSE), NamedMember("b", Ref("Person"), FALSE)>>),
   RefArgs("Pick", <<Ref("Person"), Union(<<StrLit("age"), StrLit("tags")>>)>>),
   RefArgs("Pick", <<Ref("Person"), StringKw>>),
   RefArgs("Omit", <<Ref("Person"), NumLit("1")>>),
   RefArgs("Pick", <<Ref("Person"), Ref("AB")>>),
   RefArgs("Omit", <<Ref("Person"), Union(<<StrLit("age"), StringKw>>)>>),
   RefArgs("Record", <<StrLit("a"), Ref("Person")>>),
   RefArgs("Promise", <<StringKw>>),
   TypeLit(<<Prop("a", FALSE, StringKw, NoTags), Prop("b", TRUE, NumberKw, NoTags)>>),
   TypeLit(<<Prop("a", FALSE, StringKw, NoTags), IndexSig(NumberKw)>>),
   TypeLit(<<IndexSig(Ref("Bare")), Prop("a", FALSE, Ref("Person"), NoTags)>>)}

Wraps(t) ==
  {ArrayT(t), RefArgs("Array", <<t>>), RefArgs("ReadonlyArray", <<t>>),
   RefArgs("Partial", <<t>>), RefArgs("Required", <<t>>), RefArgs("Readonly", <<t>>),
   Paren(t), RefArgs("Record", <<StringKw, t>>), RefArgs("Set", <<t>>),
   RefArgs("Maybe", <<t>>), RefArgs("Omit", <<t, StrLit("age")>>),
   Tuple(<<t>>), Tuple(<<NumberKw, RestT(ArrayT(t))>>),
   TypeLit(<<Prop("a", TRUE, t, NoTags)>>),
   Union(<<t, NullLit>>), Union(<<t, NumberKw>>)}

RECURSIVE TypesOfDepth(_)
TypesOfDepth(d) ==
  IF d = 0 THEN Leaves
  ELSE Leaves \cup Specials \cup UNION {Wraps(t) : t \in TypesOfDepth(d - 1)}


TagSets ==
  {NoTags,
   ("description" :> "d") @@ ("elementMinimum" :> "1") @@ ("elementDescription" :> "e"),
   ("schema" :> ".int()") @@ ("minimum" :> "0"),
   ("schema" :> "coerce.number()"),
   ("discriminator" :> "kind")}

FlagSets == [isOptional : BOOLEAN, isNullable : BOOLEAN, isPartial : BOOLEAN,
             isRequired : BOOLEAN]

NoFlags == Flags(FALSE, FALSE, FALSE, FALSE)

\* The flag records the compiler's own callers pass at a member or alias
PlainFlagSets == {fl \in FlagSets : ~fl.isNullable /\ ~fl.isPartial /\ ~fl.isRequired}


Context(mc) ==
  [maybeConfig |-> mc, sourceFile |-> SourceFile, skipParseJSDoc |-> FALSE,
   customJSDocFormatTypes |-> {}]

NoResult == [ok |-> FALSE, pending |-> TRUE]

Declaration(name) == findInterfaceOrTypeAliasDecl(name, SourceFile)[1]

\* Nodes handed to generateZodSchema: references, keywords, an object
\* literal, a union, and declarations themselves
GenerateNodes ==
  {StringKw, NumberKw, BooleanKw, AnyKw, Ref("T"), Ref("U"), Ref("Person"), Ref("Box"),
   RefArgs("Box", <<StringKw>>), RefArgs("Box", <<NumberKw>>),
   RefArgs("Pair", <<StringKw, NumberKw>>), RefArgs("Pair", <<StringKw>>),
   RefArgs("T", <<StringKw>>), RefArgs("Person", <<StringKw>>),
   TypeLit(<<Prop("value", FALSE, StringKw, NoTags)>>), Union(<<StringKw, NumberKw>>),
   RefArgs("Flag", <<TrueLit>>), RefArgs("Flag", <<FalseLit>>),
   RefArgs("Flag", <<Ref("T")>>), RefArgs("Outer", <<TrueLit>>),
   RefArgs("Outer", <<FalseLit>>), RefArgs("Wrap", <<StringKw>>),
   RefArgs("Duo", <<TrueLit, FalseLit>>),
   Declaration("Flag"), Declaration("Bare"), Declaration("Duo"), Declaration("Wrap"),
   Declaration("Outer"), Declaration("Inner"), Declaration("Box"), Declaration("Person")}

ReservedNames == {"Flag", "Bare", "Duo", "Wrap", "Outer", "Inner"}

GenerateMaybeConfigs ==
  [typeNames : {{}, ReservedNames}, optional : BOOLEAN, nullable : BOOLEAN]

State(gm, mc) == [genericMap |-> gm, maybeConfig |-> mc, rawFileAst |-> SourceFile]

\* The configurations handed to the CLI's generate: each of maybeTypeNames,
\* maybeOptional and maybeNullable is absent or set (no configuration file
\* reads as all three absent)
FileConfigs ==
  {names @@ optional @@ nullable :
     names \in {NoTags} \cup {[maybeTypeNames |-> a] :
                                a \in {<<>>, <<"Flag">>, <<"Flag", "Bare", "Flag">>}},
     optional \in {NoTags} \cup {[maybeOptional |-> b] : b \in BOOLEAN},
     nullable \in {NoTags} \cup {[maybeNullable |-> b] : b \in BOOLEAN}}

\* The State TsToZod.generate builds (seenSymbols, an empty set, is left out)
generateState(config) ==
  State(NoTags,
        [optional |-> TRUE, nullable |-> TRUE,
         typeNames |-> IF "maybeTypeNames" \in DOMAIN config
                       THEN {config.maybeTypeNames[i] : i \in 1..Len(config.maybeTypeNames)}
                       ELSE {}])

\* Declarations handed to generateZodSchemaVariableStatement: the statements of
\* the source file, declarations with an extends clause
\* interface Hero extends Person { power: string; friend: Bare }
\* interface Slim extends Omit<Person, "age"> { box: Box }
\* interface Both extends Pick<Person, "age" | "tags">, Bare {}
\* interface Odd extends Omit<Person, 1> { x: string }
\* interface Bad extends Person, Pick<Bare, string> { x: string }
\* interface Twice extends Person, Bare, Person { a: Bare[]; b: Person; c: AB | Bare }
\* and, for every type t of depth one and every tag set,
\* type Alias = t   and   interface Holder { first?: t; second: Bare }
StatementNodes ==
  {SourceFile[i] : i \in 1..Len(SourceFile)}
  \cup
  {Interface("Hero", FALSE, <<>>, <<Ref("Person")>>,
             <<Prop("power", FALSE, StringKw, NoTags),
               Prop("friend", FALSE, Ref("Bare"), NoTags)>>, NoTags),
   Interface("Slim", FALSE, <<>>, <<RefArgs("Omit", <<Ref("Person"), StrLit("age")>>)>>,
             <<Prop("box", FALSE, Ref("Box"), NoTags)>>, NoTags),
   Interface("Both", FALSE, <<>>,
             <<RefArgs("Pick", <<Ref("Person"), Union(<<StrLit("age"), StrLit("tags")>>)>>),
               Ref("Bare")>>, <<>>, NoTags),
   Interface("Odd", FALSE, <<>>, <<RefArgs("Omit", <<Ref("Person"), NumLit("1")>>)>>,
             <<Prop("x", FALSE, StringKw, NoTags)>>, NoTags),
   Interface("Bad", FALSE, <<>>,
             <<Ref("Person"), RefArgs("Pick", <<Ref("Bare"), StringKw>>)>>,
             <<Prop("x", FALSE, StringKw, NoTags)>>, NoTags),
   Interface("Twice", FALSE, <<>>, <<Ref("Person"), Ref("Bare"), Ref("Person")>>,
             <<Prop("a", FALSE, ArrayT(Ref("Bare")), NoTags),
               Prop("b", FALSE, Ref("Person"), NoTags),
               Prop("c", FALSE, Union(<<Ref("AB"), Ref("Bare")>>), NoTags)>>, NoTags)}

  \cup
  {TypeAlias("Alias", FALSE, <<>>, t, tags) : t \in TypesOfDepth(1), tags \in TagSets}
  \cup {Interface("Holder", FALSE, <<>>, <<>>,
                   <<Prop("first", TRUE, t, tags), Prop("second", FALSE, Ref("Bare"), NoTags)>>,
                   NoTags) : t \in TypesOfDepth(1), tags \in TagSets}

-----------------------------------------------------------------------------
(* The state machine: Init draws the inputs of one call, the action of the *)
(* entry point named by op performs it.                                    *)

\* Deep trees under the flags a member passes and no tags, and trees one
\* level shallower under every tag set and every flag combination, for
\* buildZodPrimitive; a node, a generic map and a maybeConfig for
\* generateZodSchema; a declaration and a maybeConfig for
\* generateZodSchemaVariableStatement; a configuration for the CLI's generate
Init ==
  /\ \/ /\ op = "buildZodPrimitive"
        /\ \/ /\ typeNode \in TypesOfDepth(MaxDepth)
              /\ jsDocTags = NoTags
              /\ flags \in PlainFlagSets
           \/ /\ typeNode \in TypesOfDepth(MaxDepth - 1)
              /\ jsDocTags \in TagSets
              /\ flags \in FlagSets
        /\ maybeConfig = [typeNames |-> {"Maybe"}, optional |-> TRUE, nullable |-> TRUE]
        /\ genericMap = NoTags
     \/ /\ op = "generateZodSchema"
        /\ typeNode \in GenerateNodes
        /\ genericMap \in
             {NoTags, ("T" :> StringKw), ("T" :> TrueLit), ("T" :> FalseLit),
              ("T" :> Ref("T")), ("T" :> Ref("U")) @@ ("U" :> TrueLit),
              ("T" :> Ref("U")) @@ ("U" :> Ref("T")), ("Box" :> NumberKw),
              ("U" :> NumberKw)}
        /\ maybeConfig \in GenerateMaybeConfigs
        /\ jsDocTags = NoTags
        /\ flags = NoFlags
     \/ /\ op = "generateZodSchemaVariableStatement"
        /\ typeNode \in StatementNodes
        /\ maybeConfig \in GenerateMaybeConfigs
        /\ genericMap = NoTags
        /\ jsDocTags = NoTags
        /\ flags = NoFlags
     \/ /\ op = "generate"
        /\ typeNode = StringKw
        /\ maybeConfig = [typeNames |-> {}, optional |-> TRUE, nullable |-> TRUE]
        /\ genericMap = NoTags
        /\ jsDocTags = NoTags
        /\ flags = NoFlags
  /\ IF op = "generate" THEN fileConfig \in FileConfigs ELSE fileConfig = NoTags
  /\ pc = "ready"
  /\ result = NoResult
  /\ tagsAfter = NoTags
  /\ cli = NoTags /\ locals = NoTags /\ written = {}

\* One call of buildZodPrimitive with an empty dependency collector
CallBuildZodPrimitive ==
  /\ pc = "ready" /\ op = "buildZodPrimitive"
  /\ result' = buildZodPrimitive(typeNode, flags, jsDocTags, Context(maybeConfig), <<>>)
  /\ tagsAfter' = tagsLeftBehind(jsDocTags)
  /\ pc' = "done"
  /\ UNCHANGED <<op, typeNode, jsDocTags, flags, maybeConfig, genericMap, fileConfig,
                 cli, locals, written>>

\* One call of generateZodSchema(node, state); genericMap is the map object
\* of the state handed in
CallGenerateZodSchema ==
  /\ pc = "ready" /\ op = "generateZodSchema"
  /\ result' = generateZodSchema(typeNode, State(genericMap, maybeConfig))
  /\ genericMap' = genericMapAfter(typeNode, State(genericMap, maybeConfig), {})
  /\ pc' = "done"
  /\ UNCHANGED <<op, typeNode, jsDocTags, flags, maybeConfig, tagsAfter, fileConfig,
                 cli, locals, written>>

\* One call of generateZodSchemaVariableStatement on a declaration
CallGenerateZodSchemaVariableStatement ==
  /\ pc = "ready" /\ op = "generateZodSchemaVariableStatement"
  /\ result' = generateZodSchemaVariableStatement(typeNode,
                  getDependencyName(typeNode.name), Context(maybeConfig))
  /\ tagsAfter' = IF typeNode.kind = "TypeAliasDeclaration" /\ ~typeNode.hasTP
                  THEN tagsLeftBehind(typeNode.tags) ELSE typeNode.tags
  /\ pc' = "done"
  /\ UNCHANGED <<op, typeNode, jsDocTags, flags, maybeConfig, genericMap, fileConfig,
                 cli, locals, written>>

\* A second call of generateZodSchemaVariableStatement with the same
\* declaration, source file and configuration, after the first is over
CallGenerateZodSchemaVariableStatementAgain ==
  /\ pc = "done" /\ op = "generateZodSchemaVariableStatement"
  /\ result' = generateZodSchemaVariableStatement(
                  [typeNode EXCEPT !.tags = getJSDocTags(typeNode, tagsAfter)],
                  getDependencyName(typeNode.name), Context(maybeConfig))
  /\ tagsAfter' = IF typeNode.kind = "TypeAliasDeclaration" /\ ~typeNode.hasTP
                  THEN tagsLeftBehind(getJSDocTags(typeNode, tagsAfter))
                  ELSE getJSDocTags(typeNode, tagsAfter)
  /\ pc' = "again"
  /\ UNCHANGED <<op, typeNode, jsDocTags, flags, maybeConfig, genericMap, fileConfig,
                 cli, locals, written>>

\* TsToZod.generate up to the State it hands to generation
CallGenerate ==
  /\ pc = "ready" /\ op = "generate"
  /\ result' = generateState(fileConfig)
  /\ pc' = "done"
  /\ UNCHANGED <<op, typeNode, jsDocTags, flags, maybeConfig, genericMap, tagsAfter,
                 fileConfig, cli, locals, written>>

Next ==
  \/ CallGenerate
  \/ CallBuildZodPrimitive
  \/ CallGenerateZodSchema
  \/ CallGenerateZodSchemaVariableStatement
  \/ CallGenerateZodSchemaVariableStatementAgain

Spec == Init /\ [][Next]_vars

-----------------------------------------------------------------------------
(* One run of the CLI's generate, step by step: it checks its arguments,   *)
(* generates, validates and writes the output files.  A path is its name   *)
(* and its extension; an absent argument, flag or option is the empty      *)
(* sequence.  pc is the position of the run, result what it returned.      *)

typescriptExtensions == {".ts", ".tsx"}
javascriptExtensions == {".js", ".jsx"}

\* A faulty extension check: every extension is accepted
extErrorsNone(input, output) == <<>>

\* The extErrors list of generate: the input must end in a TypeScript
\* extension, the output, if given, in a TypeScript or JavaScript one
extErrors(input, output) ==
  (IF input.ext \notin typescriptExtensions THEN <<input>> ELSE <<>>)
  \o (IF output # <<>> /\ output[1].ext \notin typescriptExtensions \cup javascriptExtensions
      THEN output ELSE <<>>)

\* The arguments, flags and configuration of one run
InitCli ==
  /\ op = "generate"
  /\ typeNode = StringKw
  /\ maybeConfig = [typeNames |-> {}, optional |-> TRUE, nullable |-> TRUE]
  /\ genericMap = NoTags
  /\ jsDocTags = NoTags
  /\ flags = NoFlags
  /\ tagsAfter = NoTags
  /\ fileConfig \in
       {maybe @@ io :
          maybe \in {NoTags, ("maybeTypeNames" :> <<"Flag">>)},
          io \in {NoTags,
                  ("input" :> [name |-> "b", ext |-> ".ts"]),
                  ("input" :> [name |-> "b", ext |-> ".ts"])
                    @@ ("output" :> [name |-> "p", ext |-> ".js"]),
                  ("input" :> [name |-> "b", ext |-> ".ts"])
                    @@ ("inferredTypes" :> [name |-> "u", ext |-> ".js"])}}
  /\ cli \in [input : {<<>>, <<[name |-> "a", ext |-> ".ts"]>>,
                       <<[name |-> "a", ext |-> ".txt"]>>},
              output : {<<>>, <<[name |-> "o", ext |-> ".ts"]>>,
                        <<[name |-> "o", ext |-> ".js"]>>,
                        <<[name |-> "o", ext |-> ".txt"]>>},
              skipValidation : BOOLEAN,
              inferredTypes : {<<>>, <<[name |-> "t", ext |-> ".ts"]>>}]
  /\ pc = "ready"
  /\ result = NoResult
  /\ locals = NoTags
  /\ written = {}

\* From the entry of generate to the end of the extension checks
CheckArguments ==
  /\ pc = "ready" /\ op = "generate"
  /\ LET input == IF cli.input # <<>> THEN cli.input
                  ELSE IF "input" \in DOMAIN fileConfig THEN <<fileConfig.input>>
                  ELSE <<>>
         output == IF cli.output # <<>> THEN cli.output
                   ELSE IF "output" \in DOMAIN fileConfig THEN <<fileConfig.output>>
                   ELSE <<>>
     IN IF input = <<>>
        THEN /\ result' = [success |-> FALSE, error |-> "Missing 1 required arg"]
             /\ pc' = "done"
             /\ locals' = locals
        ELSE IF extErrors(input[1], output) # <<>>
        THEN /\ result' = [success |-> FALSE, error |-> "Unexpected file extension"]
             /\ pc' = "done"
             /\ locals' = locals
        ELSE /\ locals' = ("input" :> input[1]) @@ ("output" :> output)
             /\ pc' = "generate"
             /\ result' = result
  /\ UNCHANGED <<op, typeNode, jsDocTags, flags, maybeConfig, genericMap, tagsAfter,
                 fileConfig, cli, written>>

\* The input file is read (readFile may reject), the State and the options
\* are built, generate answers whether the input has circular dependencies;
\* an option of the configuration file overrides the flag of the same name
GenerateSchemas ==
  /\ pc = "generate"
  /\ \/ /\ pc' = "threw"
        /\ UNCHANGED <<result, locals>>
     \/ \E hasCircularDependencies \in BOOLEAN :
          /\ locals' = ("state" :> generateState(fileConfig))
                       @@ ("inferredTypes" :>
                             IF "inferredTypes" \in DOMAIN fileConfig
                             THEN <<fileConfig.inferredTypes>>
                             ELSE cli.inferredTypes)
                       @@ ("hasCircularDependencies" :> hasCircularDependencies)
                       @@ locals
          /\ IF hasCircularDependencies /\ locals.output = <<>>
             THEN /\ result' = [success |-> FALSE,
                                error |-> "--output= must also be provided"]
                  /\ pc' = "done"
             ELSE /\ pc' = "validate"
                  /\ result' = result
  /\ UNCHANGED <<op, typeNode, jsDocTags, flags, maybeConfig, genericMap, tagsAfter,
                 fileConfig, cli, written>>

\* The validation of the generated types, unless skipValidation is set
ValidateGeneratedTypes ==
  /\ pc = "validate"
  /\ IF cli.skipValidation
     THEN /\ pc' = "writeInferredTypes"
          /\ UNCHANGED <<result, locals>>
     ELSE \E generationErrors \in {<<>>, <<"error">>} :
            /\ locals' = ("generationErrors" :> generationErrors) @@ locals
            /\ IF Len(generationErrors) > 0
               THEN /\ result' = [success |-> FALSE, error |-> generationErrors[1]]
                    /\ pc' = "done"
               ELSE /\ pc' = "writeInferredTypes"
                    /\ result' = result
  /\ UNCHANGED <<op, typeNode, jsDocTags, flags, maybeConfig, genericMap, tagsAfter,
                 fileConfig, cli, written>>

\* The inferred-types file is written when the option is set (outputFile may
\* reject)
WriteInferredTypes ==
  /\ pc = "writeInferredTypes"
  /\ IF locals.inferredTypes # <<>>
     THEN \/ /\ written' = written \cup {locals.inferredTypes[1]}
             /\ pc' = "writeSchemas"
          \/ /\ pc' = "threw"
             /\ written' = written
     ELSE /\ pc' = "writeSchemas"
          /\ written' = written
  /\ UNCHANGED <<op, typeNode, jsDocTags, flags, maybeConfig, genericMap, tagsAfter,
                 fileConfig, cli, result, locals>>

\* The schemas file is written to outputPath, the path of output || input
\* (outputFile may reject), and generate returns success
WriteSchemas ==
  /\ pc = "writeSchemas"
  /\ \/ /\ written' = written
                      \cup {IF locals.output # <<>> THEN locals.output[1] ELSE locals.input}
        /\ result' = [success |-> TRUE, error |-> ""]
        /\ pc' = "done"
     \/ /\ pc' = "threw"
        /\ UNCHANGED <<written, result>>
  /\ UNCHANGED <<op, typeNode, jsDocTags, flags, maybeConfig, genericMap, tagsAfter,
                 fileConfig, cli, locals>>

NextCli ==
  \/ CheckArguments
  \/ GenerateSchemas
  \/ ValidateGeneratedTypes
  \/ WriteInferredTypes
  \/ WriteSchemas

SpecCli == InitCli /\ [][NextCli]_vars

-----------------------------------------------------------------------------
(* Properties of the compiler, stated on the states in which a call is     *)
(* done: typeNode, jsDocTags, flags, maybeConfig and genericMap are the    *)
(* call's inputs and result is what it returned.                           *)

Done(entryPoint) == pc = "done" /\ op = entryPoint

\* expr.<name>()
Modifier(expr, name) == CallExpr(PropertyAccess(expr, name), <<>>)

\* z.<callName>(args)
Combinator(callName, args) == CallExpr(PropertyAccess(Identifier(ZImport), callName), args)

isCombinator(e, callName) ==
  /\ e.e = "Call"
  /\ e.kids[1] = PropertyAccess(Identifier(ZImport), callName)

isModifierCall(e) ==
  /\ e.e = "Call" /\ e.kids[1].e = "PropertyAccess"
  /\ e.kids[1].kids[1] # Identifier(ZImport)

\* The expression under the chained modifiers of e
RECURSIVE combinatorOf(_)
combinatorOf(e) == IF isModifierCall(e) THEN combinatorOf(e.kids[1].kids[1]) ELSE e

\* The names of the chained modifiers of e, innermost first
RECURSIVE modifierNames(_)
modifierNames(e) ==
  IF isModifierCall(e) THEN Append(modifierNames(e.kids[1].kids[1]), e.kids[1].name)
  ELSE <<>>

\* r with one nullable modifier appended at the top level
NullableAppended(r) == IF r.ok THEN Ok(Modifier(r.expr, "nullable"), r.deps) ELSE r

\* T | null with T not a union
isNullableOfNonUnion(n) ==
  /\ n.kind = "UnionType" /\ Len(n.kids) = 2
  /\ isNotNull(n.kids[1]) /\ n.kids[1].kind # "UnionType"
  /\ ~isNotNull(n.kids[2])

\* C1: for a non-union T, every tag set and either optional flag,
\* buildZodPrimitive on T | null returns what it returns for T with one
\* nullable modifier appended at the top level, nothing inside differing.
C1_NullArmIsOneTopLevelNullable ==
  (Done("buildZodPrimitive") /\ isNullableOfNonUnion(typeNode) /\ flags \in PlainFlagSets)
  => result = NullableAppended(buildZodPrimitive(typeNode.kids[1], flags, jsDocTags,
                                                 Context(maybeConfig), <<>>))

\* C2: with interface Box<T> { value: T } declared, generateZodSchema on
\* Box<string> returns the schema of the object literal { value: string }.
C2_BoxOfStringIsObjectOfString ==
  (Done("generateZodSchema") /\ typeNode = RefArgs("Box", <<StringKw>>))
  => result = Returned(ZObject(<<ShapeEntry("value", ZString)>>))

\* C3: a type reference whose name is a key of the generic map compiles to
\* the schema of the bound type under the same map, whether or not it has
\* type arguments or a generic declaration of that name exists.
C3_SubstitutionComesFirst ==
  (Done("generateZodSchema") /\ isTypeReferenceNode(typeNode)
   /\ typeNode.name \in DOMAIN genericMap)
  => result = generateZodSchema(genericMap[typeNode.name], State(genericMap, maybeConfig))

\* C4: generateZodSchemaVariableStatement raises an error for a declaration
\* with generic parameters, except for an interface registered in
\* maybeConfig.typeNames, which it does not reject.
C4_GenericDeclarationRejectedUnlessReserved ==
  (Done("generateZodSchemaVariableStatement")
   /\ typeNode.kind \in {"InterfaceDeclaration", "TypeAliasDeclaration"}
   /\ typeNode.hasTP)
  => (~result.ok <=> ~(/\ typeNode.kind = "InterfaceDeclaration"
                       /\ typeNode.name \in maybeConfig.typeNames))

\* The members of a reserved interface that generateZodSchema compiles
reservedMembers(node) ==
  SelectSeq(node.kids, LAMBDA m : m.kind = "PropertySignature" /\ m.kids # <<>>)

\* The state the members of a reserved interface are compiled under: the
\* interface's parameter is no longer bound
reservedMemberState(node) ==
  State([k \in DOMAIN genericMap \ {node.tparams[1]} |-> genericMap[k]], maybeConfig)

\* The schema a member gets when the parameter is bound to something other
\* than true
disabledMember(schema) ==
  LET opt == IF maybeConfig.optional THEN ZOptional(schema) ELSE schema
  IN IF maybeConfig.nullable THEN ZNullable(opt) ELSE opt

\* C5: a reserved interface with one parameter P compiles its members as
\* normal members (optional exactly with ?) when P is unbound or bound to
\* literal true, and otherwise wraps each member optional / nullable as
\* maybeConfig says whatever its ?; any other parameter count is an error.
C5_ReservedInterfaceMembers ==
  (Done("generateZodSchema") /\ typeNode.kind = "InterfaceDeclaration"
   /\ typeNode.name \in maybeConfig.typeNames)
  => IF Len(typeNode.tparams) # 1 THEN result.status = "error"
     ELSE LET P == typeNode.tparams[1]
              members == reservedMembers(typeNode)
              normal == P \notin DOMAIN genericMap \/ genericMap[P] = TrueLit
              compiled(i) == generateZodSchema(members[i].kids[1],
                                               reservedMemberState(typeNode))
          IN IF \E i \in 1..Len(members) : compiled(i).status # "ok"
             THEN result.status # "ok"
             ELSE /\ result.status = "ok"
                  /\ result.schema.z = "object"
                  /\ Len(result.schema.shape) = Len(members)
                  /\ \A i \in 1..Len(members) :
                       result.schema.shape[i] =
                         ShapeEntry(members[i].name,
                           IF normal
                           THEN IF members[i].q THEN ZOptional(compiled(i).schema)
                                ELSE compiled(i).schema
                           ELSE disabledMember(compiled(i).schema))

\* C5 happens: Flag<false> with both wrappers configured
C5_Witness ==
  /\ Done("generateZodSchema") /\ typeNode = Declaration("Flag")
  /\ "Flag" \in maybeConfig.typeNames /\ maybeConfig.optional /\ maybeConfig.nullable
  /\ "T" \in DOMAIN genericMap /\ genericMap["T"] = FalseLit
  /\ result = Returned(ZObject(<<ShapeEntry("x", ZNullable(ZOptional(ZString))),
                                 ShapeEntry("y", ZNullable(ZOptional(ZNumber)))>>))

\* C6: for every T, every tag set and every combination of the flags,
\* buildZodPrimitive returns the same for Array<T> as for T[].
C6_ArrayReferenceIsArrayType ==
  (Done("buildZodPrimitive") /\ isTypeReferenceNode(typeNode) /\ ~isQualifiedName(typeNode)
   /\ typeNode.name = "Array" /\ typeNode.hasArgs)
  => result = buildZodPrimitive(ArrayT(typeNode.kids[1]), flags, jsDocTags,
                                Context(maybeConfig), <<>>)

\* C6 happens: Array<string> under a dot-prefixed schema override, an
\* element tag and all four flags
C6_Witness ==
  /\ Done("buildZodPrimitive") /\ typeNode = RefArgs("Array", <<StringKw>>)
  /\ HasTag(jsDocTags, "schema") /\ jsDocTags["schema"] \in DOMAIN SliceDot
  /\ flags = Flags(TRUE, TRUE, TRUE, TRUE)
  /\ result.ok /\ result.expr.e = "PropertyAccess"
  /\ result.expr.name = SliceDot[jsDocTags["schema"]]
  /\ isCombinator(combinatorOf(result.expr.kids[1]), "array")

\* The combinator the data model pairs with each primitive keyword
KeywordCombinator ==
  [StringKeyword |-> "string", NumberKeyword |-> "number", BooleanKeyword |-> "boolean",
   BigIntKeyword |-> "bigint", AnyKeyword |-> "any", UnknownKeyword |-> "unknown",
   NeverKeyword |-> "never", VoidKeyword |-> "void", UndefinedKeyword |-> "undefined",
   ObjectKeyword |-> "object"]

isBareCall(n) ==
  Done("buildZodPrimitive") /\ n.kind \in DOMAIN KeywordCombinator
  /\ jsDocTags = NoTags /\ flags = NoFlags

\* C7 as stated: each of the ten primitive keywords, with no tags and all
\* flags off, compiles to its combinator with no arguments and no modifiers.
C7_EveryKeywordIsBareCombinator ==
  isBareCall(typeNode)
  => result = Ok(Combinator(KeywordCombinator[typeNode.kind], <<>>), <<>>)

\* C7: with no tags and all flags off, each primitive keyword but object
\* compiles to its combinator with no arguments and no modifiers, and the
\* object keyword compiles to record(any()) with no modifiers.
C7_KeywordCombinators ==
  isBareCall(typeNode)
  => result = IF typeNode.kind = "ObjectKeyword"
              THEN Ok(Combinator("record", <<Combinator("any", <<>>)>>), <<>>)
              ELSE Ok(Combinator(KeywordCombinator[typeNode.kind], <<>>), <<>>)

\* C7 happens: the object keyword is compiled bare
C7_Witness ==
  /\ isBareCall(typeNode) /\ typeNode.kind = "ObjectKeyword"
  /\ result.ok /\ isCombinator(result.expr, "record")

\* Every union combinator in e has two arms or more, none of them null()
RECURSIVE unionsWellFormed(_)
unionsWellFormed(e) ==
  /\ isCombinator(e, "union") =>
       /\ Len(e.kids[2].kids) >= 2
       /\ \A i \in 1..Len(e.kids[2].kids) : ~isCombinator(e.kids[2].kids[i], "null")
  /\ \A i \in 1..Len(e.kids) : unionsWellFormed(e.kids[i])

\* C8: every union combinator buildZodPrimitive emits, from a union type or
\* from a template literal, has at least two arms and no null arm.
C8_UnionsHaveTwoArmsAndNoNull ==
  (Done("buildZodPrimitive") /\ result.ok) => unionsWellFormed(result.expr)

\* The non-null arms of a union
nonNullArms(n) == SelectSeq(n.kids, isNotNull)

\* An arm the discriminated union accepts: an object literal with a member
\* named d, or a type reference
passesDiscriminator(arm, d) ==
  \/ arm.kind = "TypeReference"
  \/ /\ arm.kind = "TypeLiteral"
     /\ \E j \in 1..Len(arm.kids) :
          arm.kids[j].kind = "PropertySignature" /\ arm.kids[j].name = d

isDiscriminatedCall(n) ==
  /\ Done("buildZodPrimitive") /\ n.kind = "UnionType" /\ Len(nonNullArms(n)) >= 2
  /\ HasTag(jsDocTags, "discriminator") /\ ~HasTag(jsDocTags, "schema")
  /\ ~flags.isNullable /\ result.ok

\* The arms of n compiled on their own, in source order
compiledArms(n) ==
  [i \in 1..Len(nonNullArms(n)) |->
     buildZodPrimitive(nonNullArms(n)[i], NoFlags, NoTags, Context(maybeConfig), <<>>).expr]

spanDeclarations(span) ==
  SelectSeq(SourceFile,
    LAMBDA n :
      /\ span.kids[1].kind = "TypeReference" /\ n.name = span.kids[1].name
      /\ \/ /\ n.kind = "TypeAliasDeclaration" /\ n.kids[1].kind = "UnionType"
            /\ \A i \in 1..Len(n.kids[1].kids) : n.kids[1].kids[i].kind = "LiteralType"
         \/ /\ n.kind = "EnumDeclaration"
            /\ \A i \in 1..Len(n.kids) : n.kids[i].kids # <<>>)

\* The text of a string literal of the source file
literalValues(nodes) ==
  [i \in 1..Len(SelectSeq(nodes, isNotNull)) |-> SelectSeq(nodes, isNotNull)[i].name]

\* The literal values of the declaration a span names, null aside
spanLiteralValues(span) ==
  IF spanDeclarations(span)[1].kind = "TypeAliasDeclaration"
  THEN literalValues(spanDeclarations(span)[1].kids[1].kids)
  ELSE [i \in 1..Len(spanDeclarations(span)[1].kids) |->
          spanDeclarations(span)[1].kids[i].kids[1].name]

\* v1 + tail1 + ... + vn + tailn for every combination, the first span
\* varying slowest
RECURSIVE spanTexts(_)
spanTexts(spans) ==
  IF spans = <<>> THEN <<"">>
  ELSE LET values == spanLiteralValues(spans[1])
           rest == spanTexts(Tail(spans))
       IN [k \in 1..(Len(values) * Len(rest)) |->
             values[((k - 1) \div Len(rest)) + 1] \o spans[1].name
             \o rest[((k - 1) % Len(rest)) + 1]]

\* C10: a template literal whose spans all name a union-of-literals alias
\* or an enum with initializers compiles to a union whose arms are the
\* literals head + v1 + tail1 + ... + vn + tailn, one for every combination
\* of the spans' non-null literal values whatever their text, the first
\* span varying slowest.
C10_TemplateCartesianProduct ==
  (Done("buildZodPrimitive") /\ typeNode.kind = "TemplateLiteralType"
   /\ ~HasTag(jsDocTags, "schema")
   /\ \A i \in 1..Len(typeNode.kids) : spanDeclarations(typeNode.kids[i]) # <<>>)
  => /\ result.ok
     /\ combinatorOf(result.expr) =
          Combinator("union",
            <<ArrayLiteral([k \in 1..Len(spanTexts(typeNode.kids)) |->
                Combinator("literal",
                  <<StringLiteral(typeNode.name \o spanTexts(typeNode.kids)[k])>>)])>>)

-----------------------------------------------------------------------------
(* Omit / Pick keys.                                                       *)

isStringLiteralType(n) == isLiteralTypeNode(n) /\ n.lit = "StringLiteral"

\* K is one string literal or a union of string literals
isStringLiteralKeys(keys) ==
  \/ isStringLiteralType(keys)
  \/ /\ keys.kind = "UnionType"
     /\ \A i \in 1..Len(keys.kids) : isStringLiteralType(keys.kids[i])

keyList(keys) == IF keys.kind = "UnionType" THEN keys.kids ELSE <<keys>>

\* base.omit({ k1: true, ... }) / base.pick({ k1: true, ... })
Projection(identifierName, keys, base) ==
  CallExpr(PropertyAccess(base, lower(identifierName)),
    <<ObjectLiteral([i \in 1..Len(keyList(keys)) |->
        PropertyAssignment(LiteralText(keyList(keys)[i]), TrueExpr)])>>)

isOmitPick(n) ==
  /\ isTypeReferenceNode(n) /\ ~isQualifiedName(n)
  /\ n.name \in {"Omit", "Pick"} /\ n.hasArgs

RECURSIVE occursIn(_, _)
occursIn(part, e) == part = e \/ \E i \in 1..Len(e.kids) : occursIn(part, e.kids[i])

\* What the type-position rule compiles T to
compiledOriginalType ==
  buildZodPrimitive(typeNode.kids[1], childFlags(flags.isNullable), NoTags,
                    Context(maybeConfig), <<>>)

\* C11: Omit<T, K> and Pick<T, K>, in a type position or in an extends
\* clause, give the compiled T followed by one omit / pick call mapping each
\* key to true when K is a string literal or a union of string literals, and
\* raise an error for every other K.
C11_OmitPickKeysAreStringLiterals ==
  /\ (Done("buildZodPrimitive") /\ isOmitPick(typeNode) /\ ~HasTag(jsDocTags, "schema"))
     => IF isStringLiteralKeys(typeNode.kids[2])
        THEN compiledOriginalType.ok =>
               /\ result.ok
               /\ result.expr = Projection(typeNode.name, typeNode.kids[2],
                                           compiledOriginalType.expr)
        ELSE ~result.ok
  /\ (Done("generateZodSchemaVariableStatement") /\ typeNode.kind = "InterfaceDeclaration"
      /\ ~typeNode.hasTP)
     => IF \A i \in 1..Len(typeNode.heritage) :
             isOmitPick(typeNode.heritage[i]) => isStringLiteralKeys(typeNode.heritage[i].kids[2])
        THEN /\ result.ok
             /\ \A i \in 1..Len(typeNode.heritage) :
                  isOmitPick(typeNode.heritage[i]) =>
                    occursIn(Projection(typeNode.heritage[i].name, typeNode.heritage[i].kids[2],
                               Identifier(getDependencyName(typeNode.heritage[i].kids[1].name))),
                             result.expr)
        ELSE ~result.ok

-----------------------------------------------------------------------------
(* Node kinds without a translation rule.                                  *)

\* The one node of the inputs whose kind no rule recognises
ConditionalType == Node("ConditionalType", "", <<>>)

\* The chained modifiers the flags fl ask for are those of e
modifiersFollowFlags(e, fl) ==
  /\ fl.isOptional <=> \E i \in 1..Len(modifierNames(e)) : modifierNames(e)[i] = "optional"
  /\ fl.isNullable <=> \E i \in 1..Len(modifierNames(e)) : modifierNames(e)[i] = "nullable"
  /\ fl.isPartial <=> \E i \in 1..Len(modifierNames(e)) : modifierNames(e)[i] = "partial"
  /\ fl.isRequired <=> \E i \in 1..Len(modifierNames(e)) : modifierNames(e)[i] = "required"

\* C12: on a node whose kind no rule recognises, buildZodPrimitive (without
\* a schema override) returns z.any() with the modifiers of the flags and
\* raises nothing; types and declarations that enclose such a node still
\* compile, with that z.any() inside.
C12_UnknownKindFallsBackToAny ==
  /\ (Done("buildZodPrimitive") /\ typeNode = ConditionalType
      /\ ~HasTag(jsDocTags, "schema"))
     => /\ result.ok
        /\ combinatorOf(result.expr) = Combinator("any", <<>>)
        /\ modifiersFollowFlags(result.expr, flags)
        /\ result.deps = <<>>
  /\ (Done("buildZodPrimitive") /\ typeNode \in Wraps(ConditionalType)
      /\ ~HasTag(jsDocTags, "schema"))
     => /\ result.ok
        /\ occursIn(Combinator("any", <<>>), result.expr)
  /\ (Done("generateZodSchemaVariableStatement")
      /\ typeNode.name \in {"Alias", "Holder"} /\ ~HasTag(typeNode.tags, "schema")
      /\ typeNode.kids[1] \in {ConditionalType, Prop("first", TRUE, ConditionalType, NoTags)})
     => /\ result.ok
        /\ occursIn(Combinator("any", <<>>), result.expr)

C12_Witness ==
  /\ Done("generateZodSchemaVariableStatement")
  /\ typeNode.name = "Holder"
  /\ typeNode.kids[1] = Prop("first", TRUE, ConditionalType, NoTags)
  /\ result.ok
  /\ result.expr =
       Combinator("object",
         <<ObjectLiteral(<<PropertyAssignment("first",
                             Modifier(Combinator("any", <<>>), "optional")),
                           PropertyAssignment("second", Identifier("bareSchema"))>>)>>)

-----------------------------------------------------------------------------
(* Repeated calls and the objects a call is handed.                        *)

-----------------------------------------------------------------------------
(* The dependency list of a declaration.                                   *)

\* A reference to a built-in construct (typeNames: the registered Maybe names)
isBuiltInReference(n, typeNames) ==
  \/ /\ n.hasArgs
     /\ n.name \in {"Array", "Record", "Set", "Promise", "Omit", "Pick", "Partial",
                    "Required", "Readonly", "ReadonlyArray"} \cup typeNames
  \/ n.name = "Date"

\* The children of a node in the order they are visited: in source order,
\* or (indexLast) an object's properties before its index signatures
visited(n, indexLast) ==
  IF n.kind = "InterfaceDeclaration"
  THEN n.heritage
       \o (IF indexLast
           THEN SelectSeq(n.kids, isPropertySignature)
                \o SelectSeq(n.kids, isIndexSignatureDeclaration)
           ELSE n.kids)
  ELSE IF n.kind = "TypeLiteral" /\ indexLast
  THEN SelectSeq(n.kids, isPropertySignature)
       \o SelectSeq(n.kids, isIndexSignatureDeclaration)
  ELSE n.kids

\* The names of the type references of a tree that are not built-in
\* constructs, depth-first, every occurrence
RECURSIVE referencedNames(_, _, _)
RECURSIVE referencedNamesOfAll(_, _, _)
referencedNames(n, typeNames, indexLast) ==
  (IF isTypeReferenceNode(n) /\ ~isQualifiedName(n) /\ ~isBuiltInReference(n, typeNames)
   THEN <<n.name>> ELSE <<>>)
  \o referencedNamesOfAll(visited(n, indexLast), typeNames, indexLast)

referencedNamesOfAll(nodes, typeNames, indexLast) ==
  IF nodes = <<>> THEN <<>>
  ELSE referencedNames(nodes[1], typeNames, indexLast)
       \o referencedNamesOfAll(Tail(nodes), typeNames, indexLast)

dependencyNames(names) == [i \in 1..Len(names) |-> getDependencyName(names[i])]

Range(xs) == {xs[i] : i \in 1..Len(xs)}

\* C14: the dependency list of a compiled declaration holds
\* getDependencyName(N) for every name N that a type reference of the
\* declaration's tree refers to and that is not a built-in construct, and
\* nothing else, whatever tags the members carry.
C14_DependenciesAreTheReferencedNames ==
  (Done("generateZodSchemaVariableStatement") /\ result.ok)
  => Range(result.dependencies)
       = Range(dependencyNames(referencedNames(typeNode, maybeConfig.typeNames, FALSE)))

\* xs can be had from ys by leaving elements out
RECURSIVE isSubsequence(_, _)
isSubsequence(xs, ys) ==
  IF xs = <<>> THEN TRUE
  ELSE IF ys = <<>> THEN FALSE
  ELSE IF xs[1] = ys[1] THEN isSubsequence(Tail(xs), Tail(ys))
  ELSE isSubsequence(xs, Tail(ys))

hasNoDuplicate(xs) == \A i, j \in 1..Len(xs) : xs[i] = xs[j] => i = j

\* The names the extends clause registers, with repetitions
heritageNames(node) ==
  IF node.kind = "InterfaceDeclaration"
  THEN dependencyNames(referencedNames(Node("", "", node.heritage), {}, FALSE))
  ELSE <<>>

\* dependencies has no duplicate, starts with the names of the extends
\* clause, and lists names in the order in which a walk that registers
\* references in the order walk can register them first
inOrderOfFirstRegistration(dependencies, node, walk) ==
  /\ hasNoDuplicate(dependencies)
  /\ Len(uniq(heritageNames(node))) <= Len(dependencies)
  /\ SubSeq(dependencies, 1, Len(uniq(heritageNames(node)))) = uniq(heritageNames(node))
  /\ isSubsequence(dependencies, dependencyNames(walk))

\* C15 as stated: the dependency list has no duplicate and lists the names in
\* the order of their first registration, the extends clauses first and then
\* the references of the members depth-first in source order.
C15_DependenciesInSourceOrder ==
  (Done("generateZodSchemaVariableStatement") /\ result.ok)
  => inOrderOfFirstRegistration(result.dependencies, typeNode,
       referencedNames(typeNode, maybeConfig.typeNames, FALSE))

\* C15: the dependency list has no duplicate and lists the names in the order
\* of their first registration, the extends clauses first and then the
\* references of the members depth-first, the properties of an object in
\* source order before its index signature.
C15_DependenciesInWalkOrder ==
  (Done("generateZodSchemaVariableStatement") /\ result.ok)
  => inOrderOfFirstRegistration(result.dependencies, typeNode,
       referencedNames(typeNode, maybeConfig.typeNames, TRUE))

\* interface Twice extends Person, Bare, Person { a: Bare[]; b: Person; c: AB | Bare }
C15_Witness ==
  /\ Done("generateZodSchemaVariableStatement") /\ typeNode.name = "Twice"
  /\ result.ok
  /\ result.dependencies = <<"personSchema", "bareSchema", "aBSchema">>

-----------------------------------------------------------------------------
(* The generic map of the state handed to generateZodSchema.               *)

\* C16: generateZodSchema leaves the generic map of the state it receives
\* as it was, whether it returns or throws, and the members of a reserved
\* interface are all compiled under the same bindings: the map the first
\* member is handed is the map left after the last.
C16_GenericMapIsNotChanged ==
  [][CallGenerateZodSchema =>
       /\ genericMap' = genericMap
       /\ (/\ typeNode.kind = "InterfaceDeclaration"
           /\ typeNode.name \in maybeConfig.typeNames
           /\ Len(typeNode.tparams) = 1)
          => membersMapAfter(typeNode,
               State(MapDelete(genericMap, typeNode.tparams[1]), maybeConfig), {}, 1)
             = MapDelete(genericMap, typeNode.tparams[1])]_vars

\* Outer<false> with Outer reserved and T already bound by the caller: T is
\* bound again and deleted, and a member binds it once more
C16_Witness ==
  /\ Done("generateZodSchema")
  /\ typeNode = RefArgs("Outer", <<FalseLit>>)
  /\ maybeConfig.typeNames = ReservedNames
  /\ genericMap = ("T" :> StringKw)
  /\ result.status = "ok"
  /\ result.schema.z = "object"

\* C17: generateZodSchema comes to an end on every node, source file and
\* generic map: it returns a schema or raises an error and never calls
\* itself again with the node and the map of a call in progress.
C17_GenerateZodSchemaTerminates ==
  Done("generateZodSchema") => result.status \in {"ok", "error"}

-----------------------------------------------------------------------------
(* The State of the CLI.                                                   *)

configured(config, key, default) == IF key \in DOMAIN config THEN config[key] ELSE default

\* C18: the State the CLI's generate hands to generation has
\* maybeConfig.typeNames equal to the set of the configured maybeTypeNames
\* (empty when absent), maybeConfig.optional equal to the configured
\* maybeOptional and maybeConfig.nullable to the configured maybeNullable,
\* each true when not configured.
C18_StateCarriesConfiguredMaybe ==
  Done("generate") =>
    /\ result.maybeConfig.typeNames
         = Range(configured(fileConfig, "maybeTypeNames", <<>>))
    /\ result.maybeConfig.optional = configured(fileConfig, "maybeOptional", TRUE)
    /\ result.maybeConfig.nullable = configured(fileConfig, "maybeNullable", TRUE)

-----------------------------------------------------------------------------
(* Equivalent spellings of a type.                                         *)

\* C19: under every combination of the flags and every tag set,
\* buildZodPrimitive on the parenthesized type (T) returns what it returns
\* on T under the same flags and tags.
C19_ParenthesesAreTransparent ==
  (Done("buildZodPrimitive") /\ typeNode.kind = "ParenthesizedType")
  => result = buildZodPrimitive(typeNode.kids[1], flags, jsDocTags,
                                Context(maybeConfig), <<>>)

\* C20: under every tag set and every combination of the flags,
\* buildZodPrimitive returns the same schema for ReadonlyArray<T> as for
\* Array<T>.
C20_ReadonlyArrayIsArray ==
  (Done("buildZodPrimitive") /\ isTypeReferenceNode(typeNode)
   /\ ~isQualifiedName(typeNode) /\ typeNode.name = "ReadonlyArray" /\ typeNode.hasArgs)
  => result = buildZodPrimitive(RefArgs("Array", typeNode.kids), flags, jsDocTags,
                                Context(maybeConfig), <<>>)

isWrapperOf(n, wrapperName) ==
  /\ isTypeReferenceNode(n) /\ ~isQualifiedName(n)
  /\ n.name = wrapperName /\ n.hasArgs

\* C21: under every combination of the four flags and every tag set,
\* buildZodPrimitive on Readonly<T> returns what it returns on T under the
\* same flags and tags.
C21_ReadonlyIsTransparent ==
  (Done("buildZodPrimitive") /\ isWrapperOf(typeNode, "Readonly"))
  => result = buildZodPrimitive(typeNode.kids[1], flags, jsDocTags,
                                Context(maybeConfig), <<>>)

-----------------------------------------------------------------------------
(* Partial and Required.                                                   *)

\* The type under the Partial, Required, Readonly and parenthesis wrappers
RECURSIVE wrapperBase(_)
wrapperBase(n) ==
  IF \/ n.kind = "ParenthesizedType"
     \/ \E w \in {"Partial", "Required", "Readonly"} : isWrapperOf(n, w)
  THEN wrapperBase(n.kids[1])
  ELSE n

\* The type whose members a schema defines: a reference to a declaration of
\* the source file or a type literal
definesMembers(n) ==
  \/ n.kind = "TypeLiteral"
  \/ /\ isTypeReferenceNode(n) /\ ~isQualifiedName(n) /\ ~n.hasArgs
     /\ findInterfaceOrTypeAliasDecl(n.name, SourceFile) # <<>>

hasModifier(e, name) ==
  \E i \in 1..Len(modifierNames(e)) : modifierNames(e)[i] = name

\* C22: for every type T whose members are defined under any nesting of
\* Partial, Required, Readonly and parentheses, the schema of Required<T>
\* carries the required modifier and the schema of Partial<T> carries the
\* partial modifier.
C22_OuterWrapperFlagReachesMembers ==
  \A w \in {"Partial", "Required"} :
    (/\ Done("buildZodPrimitive") /\ isWrapperOf(typeNode, w)
     /\ definesMembers(wrapperBase(typeNode))
     /\ ~HasTag(jsDocTags, "schema")
     /\ result.ok)
    => hasModifier(result.expr, IF w = "Partial" THEN "partial" ELSE "required")

-----------------------------------------------------------------------------
(* Indexed access.                                                         *)

\* The indexes i1 ... in of the chain R[i1]...[in], from the root outwards
RECURSIVE indexChain(_)
indexChain(n) ==
  IF n.kids[1].kind = "IndexedAccessType"
  THEN Append(indexChain(n.kids[1]), n.kids[2])
  ELSE <<n.kids[2]>>

\* The type the chain is rooted at
RECURSIVE chainRoot(_)
chainRoot(n) == IF n.kind = "IndexedAccessType" THEN chainRoot(n.kids[1]) ELSE n

\* The path segment of one index
segmentOf(idx) ==
  IF IsQuotedIndex(idx) THEN "shape." \o idx.name
  ELSE "items[" \o IndexTypeText(idx) \o "]"

\* The path of a projection, a bracketed member shape["k"] read as shape.k
pathOf(e) ==
  IF e.e = "PropertyAccess" THEN e.name
  ELSE IF e.e = "ElementAccess" /\ e.kids[1].e = "PropertyAccess"
  THEN e.kids[1].name \o "." \o e.kids[2].name
  ELSE ""

\* The identifier a projection starts from
projectionRoot(e) ==
  IF e.e = "PropertyAccess" THEN e.kids[1]
  ELSE IF e.e = "ElementAccess" /\ e.kids[1].e = "PropertyAccess"
  THEN e.kids[1].kids[1]
  ELSE e

\* C23: for every chain R[i1]...[in] rooted at a named reference and without
\* the index -1, buildSchemaReference returns a projection rooted at
\* getDependencyName(R) whose path has one segment per index in order,
\* shape.<name> for a string index and items[n] for a numeric one, and
\* registers getDependencyName(R).
C23_OneSegmentPerIndex ==
  (/\ Done("buildZodPrimitive") /\ typeNode.kind = "IndexedAccessType"
   /\ isTypeReferenceNode(chainRoot(typeNode))
   /\ ~HasTag(jsDocTags, "schema")
   /\ \A i \in 1..Len(indexChain(typeNode)) :
        IndexTypeText(indexChain(typeNode)[i]) # "-1")
  => LET r == buildSchemaReference(typeNode, Context(maybeConfig), <<>>, <<>>)
         chain == indexChain(typeNode)
         dependencyName == getDependencyName(chainRoot(typeNode).name)
     IN /\ r.ok
        /\ projectionRoot(r.expr) = Identifier(dependencyName)
        /\ pathOf(r.expr) = Join([i \in 1..Len(chain) |-> segmentOf(chain[i])], ".")
        /\ r.deps = <<dependencyName>>
        /\ result.ok /\ occursIn(r.expr, result.expr)

-----------------------------------------------------------------------------
(* Tuples.                                                                 *)

\* A rest element of a tuple: ...T or a named member ...name: T
isRestElement(n) ==
  \/ n.kind = "RestType"
  \/ n.kind = "NamedTupleMember" /\ n.q

\* The elements in front of the rest element, all of them without one
fixedElements(elements) ==
  IF elements # <<>> /\ isRestElement(elements[Len(elements)])
  THEN SubSeq(elements, 1, Len(elements) - 1)
  ELSE elements

\* The element type X of the rest element ...X[] or ...Array<X>
restElementType(n) ==
  LET arrayType == n.kids[1]
  IN IF arrayType.kind = "ArrayType" \/ isWrapperOf(arrayType, "Array")
     THEN <<arrayType.kids[1]>>
     ELSE <<>>

\* C24: for every tuple type whose elements compile, buildZodPrimitive
\* returns z.tuple with one slot per element in front of the rest element,
\* every slot the compiled inner type of its element, and a rest modifier
\* carrying the compiled element type exactly when the last element is a
\* rest element.
C24_TupleSlotsAndRest ==
  (/\ Done("buildZodPrimitive") /\ typeNode.kind = "TupleType"
   /\ ~HasTag(jsDocTags, "schema"))
  => LET elements == typeNode.kids
         fixed == fixedElements(elements)
         slot(i) == buildZodPrimitive(tupleSlot(fixed[i]), childFlags(flags.isNullable),
                                      NoTags, Context(maybeConfig), <<>>)
         rest == IF fixed # elements THEN restElementType(elements[Len(elements)])
                 ELSE <<>>
         restSlot(x) == buildZodPrimitive(x, childFlags(flags.isNullable), NoTags,
                                          Context(maybeConfig), <<>>)
         tuple == combinatorOf(result.expr)
     IN (/\ \A i \in 1..Len(fixed) : slot(i).ok
         /\ \A x \in Range(rest) : restSlot(x).ok)
        => /\ result.ok
           /\ isCombinator(tuple, "tuple")
           /\ tuple.kids[2].kids = [i \in 1..Len(fixed) |-> slot(i).expr]
           /\ IF fixed # elements
              THEN /\ hasModifier(result.expr, "rest")
                   /\ \A x \in Range(rest) : occursIn(restSlot(x).expr, result.expr)
              ELSE ~hasModifier(result.expr, "rest")

-----------------------------------------------------------------------------
(* Interfaces with an extends clause.                                      *)

\* The schema reference of one extends entry, projected when the entry is
\* Omit<T, K> or Pick<T, K>
entryReference(h) ==
  IF isOmitPick(h)
  THEN Projection(h.name, h.kids[2], Identifier(getDependencyName(h.kids[1].name)))
  ELSE Identifier(getDependencyName(h.name))

\* first.extend(second.shape) ... .extend(last.shape) over the entries up to i
RECURSIVE extendChain(_, _)
extendChain(heritage, i) ==
  IF i = 1 THEN entryReference(heritage[1])
  ELSE CallExpr(PropertyAccess(extendChain(heritage, i - 1), "extend"),
                <<PropertyAccess(entryReference(heritage[i]), "shape")>>)

extendCalls(e) ==
  Cardinality({i \in 1..Len(modifierNames(e)) : modifierNames(e)[i] = "extend"})

\* C25: the schema of an interface with N >= 1 extends entries and no index
\* signature is the chain over its entries, first entry first and one
\* extend(<entry>.shape) per further entry in source order, followed by one
\* extend with the object literal of the own members exactly when there are
\* own members: N - 1 + (1 if own members else 0) extend calls.
C25_ExtendsChain ==
  (/\ Done("generateZodSchemaVariableStatement")
   /\ typeNode.kind = "InterfaceDeclaration"
   /\ typeNode.heritage # <<>>
   /\ \A i \in 1..Len(typeNode.kids) : typeNode.kids[i].kind # "IndexSignature"
   /\ result.ok)
  => LET N == Len(typeNode.heritage)
         chain == extendChain(typeNode.heritage, N)
     IN /\ IF typeNode.kids = <<>>
           THEN result.expr = chain
           ELSE /\ isModifierCall(result.expr)
                /\ result.expr.kids[1] = PropertyAccess(chain, "extend")
                /\ Len(result.expr.kids) = 2
                /\ result.expr.kids[2].e = "ObjectLiteral"
                /\ [i \in 1..Len(result.expr.kids[2].kids) |->
                      result.expr.kids[2].kids[i].name]
                   = [i \in 1..Len(typeNode.kids) |-> typeNode.kids[i].name]
        /\ extendCalls(result.expr) = N - 1 + (IF typeNode.kids = <<>> THEN 0 ELSE 1)

\* Twice extends three entries and has own members: three extend calls; Both
\* starts at a projection and has no own members: one extend call
C25_Witness ==
  /\ Done("generateZodSchemaVariableStatement")
  /\ typeNode.kind = "InterfaceDeclaration" /\ typeNode.name = "Twice"
  /\ result.ok
  /\ extendCalls(result.expr) = 3

-----------------------------------------------------------------------------
(* The schema override of a member.                                        *)

\* What the structural rules compile the node to, the override left aside
structurallyCompiled ==
  buildZodPrimitive(typeNode, flags, WithoutTag(jsDocTags, "schema"),
                    Context(maybeConfig), <<>>)

\* C26: under a schema override s, buildZodPrimitive raises the errors and
\* registers the dependencies of the structural compilation of the type; its
\* result is the reference z.<s> when s does not start with a dot and the
\* structurally compiled schema, modifiers included, followed by s when it
\* does.
C26_OverrideAfterStructuralRule ==
  (/\ Done("buildZodPrimitive")
   /\ HasTag(jsDocTags, "schema") /\ jsDocTags["schema"] # "")
  => IF ~structurallyCompiled.ok
     THEN result = structurallyCompiled
     ELSE /\ result.ok
          /\ result.deps = structurallyCompiled.deps
          /\ result.expr
             = IF jsDocTags["schema"] \in DOMAIN SliceDot
               THEN PropertyAccess(structurallyCompiled.expr,
                                   SliceDot[jsDocTags["schema"]])
               ELSE PropertyAccess(Identifier(ZImport), jsDocTags["schema"])

\* C27: once buildZodPrimitive is over, the tag map it was given has the keys
\* and values it had before the call.
C27_TagMapIsReadOnly ==
  Done("buildZodPrimitive") => tagsAfter = jsDocTags

-----------------------------------------------------------------------------
(* A generic parameter of the enclosing scope as the argument of a         *)
(* reserved interface.                                                     *)

\* The declaration of Outer with the argument written in place of its
\* parameter: interface Outer<T> { a: Inner<arg> }
OuterWithArgument(arg) ==
  Interface("Outer", TRUE, <<"T">>, <<>>,
            <<Prop("a", FALSE, RefArgs("Inner", <<arg>>), NoTags)>>, NoTags)

\* C28: with Outer and Inner reserved, Outer<true> and Outer<false> compile
\* the member a: Inner<T> as if the literal bound to T had been written as
\* the argument of Inner.
C28_ArgumentResolvedThroughEnclosingMap ==
  (/\ Done("generateZodSchema")
   /\ typeNode \in {RefArgs("Outer", <<TrueLit>>), RefArgs("Outer", <<FalseLit>>)}
   /\ {"Outer", "Inner"} \subseteq maybeConfig.typeNames)
  => result = generateZodSchema(OuterWithArgument(typeNode.kids[1]),
                State(MapSet(genericMap, "T", typeNode.kids[1]), maybeConfig))

-----------------------------------------------------------------------------
(* Template literals with a span that cannot be harvested.                 *)

\* The span contributes a value that cannot be harvested: its type is not a
\* type reference, the reference names no union alias or enum of the source
\* file, an enum member has no initializer or an arm of the union is not a
\* literal
isUnharvestable(span) ==
  LET target == templateTarget(span, SourceFile)
  IN \/ ~isTypeReferenceNode(span.kids[1])
     \/ target = <<>>
     \/ /\ target # <<>> /\ target[1].kind = "EnumDeclaration"
        /\ \E i \in 1..Len(target[1].kids) : target[1].kids[i].kids = <<>>
     \/ /\ target # <<>> /\ target[1].kind = "TypeAliasDeclaration"
        /\ \E i \in 1..Len(target[1].kids[1].kids) :
             ~isLiteralTypeNode(target[1].kids[1].kids[i])

\* C29: a template literal with a span that cannot be harvested compiles to
\* the any combinator and raises no error.
C29_UnharvestableSpanGivesAny ==
  (/\ Done("buildZodPrimitive") /\ typeNode.kind = "TemplateLiteralType"
   /\ ~HasTag(jsDocTags, "schema")
   /\ \E i \in 1..Len(typeNode.kids) : isUnharvestable(typeNode.kids[i]))
  => /\ result.ok
     /\ isCombinator(combinatorOf(result.expr), "any")

-----------------------------------------------------------------------------
(* One run of the CLI's generate.                                          *)

\* The input and the output the run was given, on the command line or in
\* the configuration file
givenPath(key) ==
  IF cli[key] # <<>> THEN cli[key]
  ELSE IF key \in DOMAIN fileConfig THEN <<fileConfig[key]>>
  ELSE <<>>

\* One of the checks has failed, as far as the run has got
hasBadExtension ==
  /\ givenPath("input") # <<>>
  /\ \/ givenPath("input")[1].ext \notin {".ts", ".tsx"}
     \/ /\ givenPath("output") # <<>>
        /\ givenPath("output")[1].ext \notin {".ts", ".tsx", ".js", ".jsx"}

isCircularWithoutOutput ==
  /\ "hasCircularDependencies" \in DOMAIN locals
  /\ locals.hasCircularDependencies
  /\ givenPath("output") = <<>>

hasValidationErrors ==
  /\ ~cli.skipValidation
  /\ "generationErrors" \in DOMAIN locals
  /\ locals.generationErrors # <<>>

\* Every check has been made and has passed
hasPassedEveryCheck ==
  /\ givenPath("input") # <<>>
  /\ ~hasBadExtension
  /\ "hasCircularDependencies" \in DOMAIN locals /\ ~isCircularWithoutOutput
  /\ cli.skipValidation
     \/ ("generationErrors" \in DOMAIN locals /\ locals.generationErrors = <<>>)

\* C30: at every moment of a run of generate, a file has been written only
\* if every check has passed; a run with a missing input, a bad extension,
\* circular dependencies without an output or validation errors returns
\* success: false with nothing written; a run that returns success: true has
\* written the schemas file.
C30_NothingWrittenBeforeEveryCheckPassed ==
  /\ written # {} => hasPassedEveryCheck
  /\ (/\ pc = "done"
      /\ \/ givenPath("input") = <<>>
         \/ hasBadExtension
         \/ isCircularWithoutOutput
         \/ hasValidationErrors)
     => (~result.success /\ written = {})
  /\ (pc = "done" /\ ~result.success) => written = {}
  /\ (pc = "done" /\ result.success)
     => (IF givenPath("output") # <<>> THEN givenPath("output")[1]
         ELSE givenPath("input")[1]) \in written

\* A validated run that returns success with the inferred-types file and the
\* schemas file written
C30_Witness ==
  /\ pc = "done" /\ op = "generate" /\ ~cli.skipValidation
  /\ "generationErrors" \in DOMAIN locals
  /\ result.success
  /\ Cardinality(written) = 2
====
